---- MODULE Spec2Model ----
(***************************************************************************)
(* A model of the retrieval-and-decision core of the export assistant:     *)
(*   - ExportDutyService.calculate_export_duty_optimized and the regex     *)
(*     extractors it uses (app/services/export_duty_service.py),           *)
(*   - OptimizedChatbotService._get_prompt_optimized and the retrieval     *)
(*     stages of PromptLibraryService it chains,                           *)
(*   - OptimizedChatbotService.process_chatbot_query and its flows.        *)
(*                                                                         *)
(* Text is modelled as a sequence of tokens, one token per lexical item    *)
(* the regular expressions of the source can see; the extractors are       *)
(* computed over the tokens the way the regular expressions scan the text. *)
(*                                                                         *)
(* Arithmetic is exact.  Amounts "per kg in USD" are kept in thousandths   *)
(* of a USD (so a price of USD 2000/ton is the per-kg amount 2000); the    *)
(* inputs are chosen so that every division of the source is exact.        *)
(***************************************************************************)
EXTENDS Integers, Sequences, FiniteSets, TLC

None == 0 - 1                      \* Python's None for an optional number

NoneOr(x, y) == IF x = None THEN y ELSE x

Range(s) == {s[i] : i \in 1..Len(s)}

Min(a, b) == IF a < b THEN a ELSE b
Max(a, b) == IF a > b THEN a ELSE b

(***************************************************************************)
(* The state.  A service instance is made for each request                 *)
(* (app/api/v1/chatbot.py, line 73), so the caches start empty.            *)
(***************************************************************************)
VARIABLES
  \* ExportDutyService
  komoditi_table,       \* what the komoditi table holds for the product
  currency_rates,       \* the records of the currency_rates table
  export_duty_chunks,   \* what the similarity search over export_duty_chunks finds,
                        \* for each destination in the query text of the search
  duty_cache,           \* ExportDutyService._cache
  calc,                 \* the frame of calculate_export_duty_optimized
  hasil,                \* what the call returned
  llm_calls,            \* calls of _llm_extract_tariff_from_chunks in the current calculation
  n_calls,              \* calls made on this service instance
  \* PromptLibraryService and _get_prompt_optimized
  prompt_library,        \* the rows of the prompt_library table (for the selection: the
                         \* active rows)
  prompt_id_seq,         \* the next value of the sequence of the id column
  active_prompts_cache,  \* PromptLibraryService._cache["active_prompts"]: <<>> or <<rows>>
  prompt_id_cache,       \* the ids p with a key "prompt_<p>" in PromptLibraryService._cache
  lib_call,              \* the last call on the PromptLibraryService and what it returned
  prompt_cache,          \* OptimizedChatbotService._prompt_cache
  default_prompt_cache,  \* whether _default_prompt_cache is set
  sel,                   \* the frame of _get_prompt_optimized
  n_select,              \* calls made on this service instance
  \* OptimizedChatbotService.process_chatbot_query
  turn,                  \* the frame of process_chatbot_query and of the handler it runs
  embedding_cache,       \* the keys of _embedding_cache
  generated,             \* the analyses handed to generate_response_with_cot, in order
  duty_requests,         \* the arguments of the calls of calculate_export_duty, in order
  response               \* what process_chatbot_query returned, or the exception that escaped

duty_vars == <<komoditi_table, currency_rates, export_duty_chunks, duty_cache,
               calc, hasil, llm_calls, n_calls>>

lib_vars == <<prompt_id_seq, prompt_id_cache, lib_call>>

sel_vars == <<prompt_library, active_prompts_cache, prompt_cache, default_prompt_cache,
              sel, n_select, lib_vars>>

turn_vars == <<turn, embedding_cache, generated, duty_requests, response>>

vars == <<duty_vars, sel_vars, turn_vars>>

(***************************************************************************)
(* Regulatory text.                                                        *)
(***************************************************************************)
Tok(k, v) == [k |-> k, v |-> v]

Tarif      == Tok("tarif", 0)      \* "tarif": anchor of percent_re only
BK         == Tok("bk", 0)         \* "bea keluar", "BK", "pungutan ekspor"
Gt         == Tok("gt", 0)         \* ">", ">=", "di atas", "lebih dari"
Gap        == Tok("gap", 0)        \* a passage of more than 120 characters with a line break
Pct(n)     == Tok("pct", n)        \* "n%"
UsdTon(n)  == Tok("usd_ton", n)    \* "USD n/ton"
UsdKg(n)   == Tok("usd_kg", n)     \* "USD n/kg"
RpKg(n)    == Tok("rp_kg", n)      \* "Rp n/kg"
RpTon(n)   == Tok("rp_ton", n)     \* "Rp n/ton"

\* Short tokens without a digit or a percent sign: [^\d%]{0,40} runs over them.
NoDigit(t) == t.k \in {"tarif", "bk", "gt"}

PercentAnchor(t) == t.k \in {"tarif", "bk"}
LevyAnchor(t)    == t.k = "bk"

\* The first position from i on that holds a token of kind k (0: none).
RECURSIVE FirstFrom(_, _, _)
FirstFrom(text, i, k) ==
  IF i > Len(text) THEN 0
  ELSE IF text[i].k = k THEN i
  ELSE FirstFrom(text, i + 1, k)

IsPct(t) == t.k = "pct"

\* percent_re at anchor position i: the anchor, at most 40 characters without
\* digit or percent sign, then a number and a percent sign.
RECURSIVE AnchoredAt(_, _)
AnchoredAt(text, j) ==
  IF j > Len(text) THEN None
  ELSE IF IsPct(text[j]) THEN text[j].v
  ELSE IF NoDigit(text[j]) THEN AnchoredAt(text, j + 1)
  ELSE None

\* percent_re.search(text): the leftmost anchor from which the pattern matches.
RECURSIVE percent_re(_, _)
percent_re(text, i) ==
  IF i > Len(text) THEN None
  ELSE IF PercentAnchor(text[i]) /\ AnchoredAt(text, i + 1) # None
       THEN AnchoredAt(text, i + 1)
  ELSE percent_re(text, i + 1)

\* percent_any_re.search(text): the first percentage of the text.
percent_any_re(text) ==
  LET i == FirstFrom(text, 1, "pct") IN IF i = 0 THEN None ELSE text[i].v

\* price_patterns, tried in the order of the list on the whole text: the
\* per-kg patterns first, then the per-ton patterns (divided by 1000).
\* The result is the per-kg price in thousandths of a USD.
price_patterns(text) ==
  LET ik == FirstFrom(text, 1, "usd_kg")
      it == FirstFrom(text, 1, "usd_ton")
  IN  IF ik # 0 THEN text[ik].v * 1000
      ELSE IF it # 0 THEN text[it].v
      ELSE None

\* _extract_tariff_and_price_from_chunks: the loop over the chunks, carrying
\* (tarif, price_per_kg); it stops once both are found.
RECURSIVE ExtractLoop(_, _, _, _)
ExtractLoop(chunks, n, tarif, price) ==
  IF n > Len(chunks) \/ (tarif # None /\ price # None)
  THEN <<tarif, price>>
  ELSE LET text == chunks[n]
           t1 == IF tarif = None THEN percent_re(text, 1) ELSE tarif
           t2 == IF t1 = None THEN percent_any_re(text) ELSE t1
           p1 == IF price = None THEN price_patterns(text) ELSE price
       IN  ExtractLoop(chunks, n + 1, t2, p1)

_extract_tariff_and_price_from_chunks(chunks) ==
  IF chunks = <<>> THEN <<None, None>> ELSE ExtractLoop(chunks, 1, None, None)

\* The specific-levy patterns: a levy anchor, at most 80 characters of the
\* same line, then the amount with its unit.
RECURSIVE LevyFrom(_, _, _)
LevyFrom(text, j, k) ==
  IF j > Len(text) \/ text[j].k = "gap" THEN None
  ELSE IF text[j].k = k THEN text[j].v
  ELSE LevyFrom(text, j + 1, k)

RECURSIVE LevySearch(_, _, _)
LevySearch(text, i, k) ==
  IF i > Len(text) THEN None
  ELSE IF LevyAnchor(text[i]) /\ LevyFrom(text, i + 1, k) # None
       THEN LevyFrom(text, i + 1, k)
  ELSE LevySearch(text, i + 1, k)

\* _extract_specific_levy_from_chunks: (usd_per_kg in thousandths, idr_per_kg).
RECURSIVE LevyLoop(_, _)
LevyLoop(chunks, n) ==
  IF n > Len(chunks) THEN <<None, None>>
  ELSE LET t  == chunks[n]
           m1 == LevySearch(t, 1, "usd_kg")
           m2 == LevySearch(t, 1, "usd_ton")
           m3 == LevySearch(t, 1, "rp_kg")
           m4 == LevySearch(t, 1, "rp_ton")
           usd == IF m1 # None THEN m1 * 1000 ELSE m2
           idr == IF m3 # None THEN m3 ELSE IF m4 # None THEN m4 \div 1000 ELSE None
       IN  IF usd # None \/ idr # None THEN <<usd, idr>>
           ELSE LevyLoop(chunks, n + 1)

_extract_specific_levy_from_chunks(chunks) ==
  IF chunks = <<>> THEN <<None, None>> ELSE LevyLoop(chunks, 1)

\* The tier pattern from position i on: a comparison word directly before
\* "USD thr/ton", then lazily at most 120 characters without a percent sign,
\* then the percentage.  finditer resumes after the percentage.
\* The result is the sequence of <<thr, pct>> in the order of the matches.
RECURSIVE NextPct(_, _)
NextPct(text, j) ==
  IF j > Len(text) \/ text[j].k = "gap" THEN 0
  ELSE IF IsPct(text[j]) THEN j
  ELSE NextPct(text, j + 1)

RECURSIVE TierMatches(_, _)
TierMatches(text, i) ==
  IF i + 1 > Len(text) THEN <<>>
  ELSE IF text[i].k = "gt" /\ text[i + 1].k = "usd_ton"
       THEN LET j == NextPct(text, i + 2)
            IN  IF j = 0 THEN TierMatches(text, i + 1)
                ELSE <<(<<text[i + 1].v, text[j].v>>)>> \o TierMatches(text, j + 1)
  ELSE TierMatches(text, i + 1)

\* All tier matches of the chunk list, chunk after chunk.
RECURSIVE AllTiers(_, _)
AllTiers(chunks, n) ==
  IF n > Len(chunks) THEN <<>>
  ELSE TierMatches(chunks[n], 1) \o AllTiers(chunks, n + 1)

\* The comparison of a tier: the price strictly exceeds the threshold.
TierApplies_Ge(usd_per_ton, thr) == usd_per_ton >= thr
TierApplies(usd_per_ton, thr) == usd_per_ton > thr

RECURSIVE FirstTier(_, _, _)
FirstTier(tiers, i, usd_per_ton) ==
  IF i > Len(tiers) THEN None
  ELSE IF TierApplies(usd_per_ton, tiers[i][1]) THEN tiers[i][2]
  ELSE FirstTier(tiers, i + 1, usd_per_ton)

_extract_tier_tariff_from_chunks(chunks, usd_per_ton) ==
  IF usd_per_ton = None \/ chunks = <<>> THEN None
  ELSE FirstTier(AllTiers(chunks, 1), 1, usd_per_ton)

(***************************************************************************)
(* Bounds and input sets of the duty calculation.                          *)
(***************************************************************************)
MaxChunks == 2                     \* length of the retrieved chunk list
MaxCalls  == 2                     \* calls of calculate_export_duty on one service instance

\* The chunk texts the similarity search may return.
ChunkTexts ==
  { <<>>,                                     \* "lihat peraturan menteri keuangan"
    <<Tarif, BK, Pct(5)>>,                    \* "tarif bea keluar 5%"
    <<Pct(3)>>,                               \* "sebesar 3%"
    <<Tarif, BK, Pct(5), UsdTon(2000)>>,      \* "tarif bea keluar 5%, harga referensi USD 2000/ton"
    <<BK, Gt, UsdTon(2000), Pct(5)>>,         \* "bea keluar: > USD 2000/ton -> 5%"
    <<Tarif, Pct(3)>>,                        \* "tarif 3%"
    <<UsdTon(2500), Tarif, Pct(3)>>,          \* "harga referensi USD 2500/ton, tarif 3%"
    <<UsdTon(2500), Gt, UsdTon(2000), Pct(5)>>, \* "HPE USD 2500/ton; di atas USD 2000/ton: 5%"
    <<Gt, UsdTon(2400), Pct(8)>>,             \* "di atas USD 2400/ton: 8%"
    <<UsdTon(2500)>>,                         \* "harga referensi USD 2500/ton"
    <<BK, UsdTon(50)>>,                       \* "bea keluar USD 50/ton"
    <<BK, RpKg(500)>>,                        \* "pungutan ekspor Rp 500/kg"
    <<BK, RpTon(500000)>> }                   \* "bea keluar Rp 500000/ton"

RECURSIVE SeqsUpTo(_, _)
SeqsUpTo(S, n) ==
  IF n = 0 THEN {<<>>}
  ELSE LET shorter == SeqsUpTo(S, n - 1)
       IN  shorter \cup {Append(q, x) : q \in {r \in shorter : Len(r) = n - 1}, x \in S}

ChunkLists == SeqsUpTo(ChunkTexts, MaxChunks)

\* The destinations of the calculations asked of one service instance.
Destinations == {"Malaysia", "India"}

\* What the search finds for a product: the query text of lines 118-121
\* holds the destination, so the chunks found may differ with it.  The
\* chunks are the same for both destinations, or a list of at most one
\* chunk for the first and the one chunk "tarif 3%" for the second.
ChunkSearches ==
  {[d \in Destinations |-> found] : found \in ChunkLists}
    \cup {[d \in Destinations |-> IF d = "Malaysia" THEN found ELSE << <<Tarif, Pct(3)>> >>] :
            found \in SeqsUpTo(ChunkTexts, 1)}

\* Lines 118-143: the rows the search returns for the product and the
\* country (a destination outside Destinations finds what the first finds).
similarity_search(country) ==
  export_duty_chunks[IF country \in Destinations THEN country ELSE "Malaysia"]

\* komoditi rows: the lookup finds none, or a row with its price and unit.
Komoditi(found, harga, satuan) ==
  [found |-> found, harga_komoditi |-> harga, satuan_komoditi |-> satuan]

KomoditiRows ==
  { Komoditi(FALSE, None, ""),
    Komoditi(TRUE, None, "kg"),               \* the catalog holds no price
    Komoditi(TRUE, 25000, "kg"),              \* Rp 25,000 per kg
    Komoditi(TRUE, 20000000, "ton"),          \* Rp 20,000,000 per ton
    Komoditi(TRUE, 25000, "liter") }          \* a unit that is neither kg nor ton

\* A record of currency_rates (app/models/currency_rates.py); dates and
\* creation times are day numbers.
RateRecord(base_currency, target_currency, rate, rate_date, created_at) ==
  [base_currency |-> base_currency, target_currency |-> target_currency, rate |-> rate,
   rate_date |-> rate_date, created_at |-> created_at]

\* What the table may hold: nothing; several USD to IDR records (an older
\* day, and two of the latest day created one after the other) and the
\* reverse pair; a USD to IDR record and a later record of USD to INR.
RateTables ==
  { {},
    { RateRecord("USD", "IDR", 10000, 3, 2), RateRecord("USD", "IDR", 9000, 3, 1),
      RateRecord("USD", "IDR", 8000, 2, 3), RateRecord("IDR", "USD", 1, 4, 1) },
    { RateRecord("USD", "IDR", 10000, 3, 1), RateRecord("USD", "INR", 80, 4, 1) } }

\* ORDER BY rate_date DESC, created_at DESC: r comes before s.
RateBefore(r, s) ==
  \/ r.rate_date > s.rate_date
  \/ r.rate_date = s.rate_date /\ r.created_at > s.created_at

\* Lines 71-80: WHERE base_currency = :currency_code ORDER BY ... LIMIT 1;
\* the rate of the row, None without a row.
LatestRate(table, currency_code) ==
  LET rows == {r \in table : r.base_currency = currency_code}
  IN  IF rows = {} THEN None
      ELSE (CHOOSE r \in rows : \A s \in rows \ {r} : RateBefore(r, s)).rate

LlmReply == {None, 7}              \* the delegated extraction: "NA"/failure, or a number

\* The calculations asked of one service instance for the product, as
\* (berat_bersih in kg, negara_tujuan).
DutyCalls == {<<1000, "Malaysia">>, <<10000, "India">>}

(***************************************************************************)
(* State.                                                                  *)
(***************************************************************************)
NoResult == [none |-> TRUE]

\* komoditi_task and currency_task are the two tasks of lines 365-366
\* ("idle", "created", "execute": awaiting self.db.execute, "done",
\* "raised"); db_in_flight holds the tasks with a statement in flight on the
\* session of the request.
IdleFrame ==
  [pc |-> "idle", berat_bersih |-> 0, negara_tujuan |-> "",
   komoditi |-> Komoditi(FALSE, None, ""),
   currency_rate |-> None, duty_chunks |-> <<>>,
   rag_tarif_persen |-> None, rag_price_per_kg |-> None,
   komoditi_task |-> "idle", currency_task |-> "idle", db_in_flight |-> {}]

EmptyCache ==
  [komoditi |-> <<>>, currency |-> <<>>, duty_chunks |-> <<>>]

(***************************************************************************)
(* calculate_export_duty_optimized: the computation between two awaits.    *)
(***************************************************************************)
\* Lines 389-403: the catalog price in IDR per kg, used when the chunks give no price.
KomoditiPriceIdrPerKg(price_per_kg, komoditi) ==
  IF price_per_kg = None /\ komoditi.found /\ komoditi.harga_komoditi # None
  THEN IF komoditi.satuan_komoditi = "kg" THEN komoditi.harga_komoditi
       ELSE IF komoditi.satuan_komoditi = "ton" THEN komoditi.harga_komoditi \div 1000
       ELSE None
  ELSE None

\* Lines 407-411.
MissingFields(tarif_persen, price_per_kg, komoditi_price_idr_per_kg) ==
  (IF tarif_persen = None THEN <<"tarif_bea_keluar_persen">> ELSE <<>>)
  \o (IF price_per_kg = None /\ komoditi_price_idr_per_kg = None
      THEN <<"harga_ekspor_per_kg">> ELSE <<>>)

\* Lines 415-417: the levy extraction runs only when no percent was found.
Levy(f) ==
  IF f.rag_tarif_persen = None
  THEN _extract_specific_levy_from_chunks(f.duty_chunks)
  ELSE <<None, None>>

\* Line 436: whether the second delegated extraction is awaited.
SecondLlmCall(f) ==
  LET kprice == KomoditiPriceIdrPerKg(f.rag_price_per_kg, f.komoditi)
      levy   == Levy(f)
  IN  /\ f.rag_tarif_persen = None
      /\ levy[1] = None /\ levy[2] = None
      /\ f.duty_chunks # <<>>
      /\ (f.rag_price_per_kg # None \/ kprice # None)

\* The specific-levy path without the conversion of a levy in USD.
LevyResult_NoRate(f, usd_levy_per_kg, idr_levy_per_kg, kprice) ==
  [ berat_bersih_kg |-> f.berat_bersih,
    berat_ton |-> f.berat_bersih \div 1000,
    harga_ekspor_per_kg_usd |-> f.rag_price_per_kg,
    harga_komoditi |-> kprice,
    kurs_usd_idr |-> f.currency_rate,
    tarif_bea_keluar_persen |-> None,
    bea_keluar_idr |->
      IF usd_levy_per_kg # None
      THEN (usd_levy_per_kg * f.berat_bersih) \div 1000
      ELSE idr_levy_per_kg * f.berat_bersih,
    calc_basis |->
      IF usd_levy_per_kg # None
      THEN "computed via specific levy (USD/kg) from RAG"
      ELSE "computed via specific levy (IDR/kg) from RAG",
    rag_source_count |-> Len(f.duty_chunks),
    can_compute |-> TRUE ]

\* Lines 440-474: the result of the specific-levy path.
LevyResult(f, usd_levy_per_kg, idr_levy_per_kg, kprice) ==
  [ berat_bersih_kg |-> f.berat_bersih,
    berat_ton |-> f.berat_bersih \div 1000,
    harga_ekspor_per_kg_usd |-> f.rag_price_per_kg,
    harga_komoditi |-> kprice,
    kurs_usd_idr |-> f.currency_rate,
    tarif_bea_keluar_persen |-> None,
    bea_keluar_idr |->
      IF usd_levy_per_kg # None
      THEN ((usd_levy_per_kg * f.berat_bersih) \div 1000) * f.currency_rate
      ELSE idr_levy_per_kg * f.berat_bersih,
    calc_basis |->
      IF usd_levy_per_kg # None
      THEN "computed via specific levy (USD/kg) from RAG"
      ELSE "computed via specific levy (IDR/kg) from RAG",
    rag_source_count |-> Len(f.duty_chunks),
    can_compute |-> TRUE ]

\* Total export value (USD, IDR) and the USD-per-ton price used for the tiers:
\* lines 480-484 and 560-563 (price from the chunks, USD), lines 493-499 and
\* 565-571 (price from the catalog, IDR).
Totals(f, kprice) ==
  LET berat_ton == f.berat_bersih \div 1000
  IN  IF f.rag_price_per_kg # None
      THEN LET harga_per_ton_usd == f.rag_price_per_kg     \* price_per_kg * 1000.0
               total_usd == harga_per_ton_usd * berat_ton
           IN  [harga_per_ton_usd |-> harga_per_ton_usd,
                total_usd |-> total_usd,
                total_idr |-> total_usd * f.currency_rate,
                usd_per_ton |-> harga_per_ton_usd]
      ELSE LET total_idr == NoneOr(kprice, 0) * f.berat_bersih
               total_usd == IF f.currency_rate # 0 THEN total_idr \div f.currency_rate ELSE 0
           IN  [harga_per_ton_usd |-> None,
                total_usd |-> total_usd,
                total_idr |-> total_idr,
                usd_per_ton |-> IF berat_ton # 0 THEN total_usd \div berat_ton ELSE None]

\* percent / 100 * total, in exact arithmetic.
PercentOf_Usd(pct, t) == pct * (t.total_usd \div 100)
PercentOf(pct, t) == pct * (t.total_idr \div 100)

\* Lines 535-556.
MissingResult(f, missing_fields) ==
  [ berat_bersih_kg |-> f.berat_bersih,
    berat_ton |-> f.berat_bersih \div 1000,
    harga_ekspor_per_kg_usd |-> f.rag_price_per_kg,
    kurs_usd_idr |-> f.currency_rate,
    tarif_bea_keluar_persen |-> f.rag_tarif_persen,
    rag_source_count |-> Len(f.duty_chunks),
    can_compute |-> FALSE,
    missing_fields |-> missing_fields ]

\* The calculation without the branch of lines 476-533: a missing tariff is
\* reported as missing data.
NoTariffResult_Missing(f, kprice) ==
  MissingResult(f, <<"tarif_bea_keluar_persen">>)

\* Lines 476-533: only the tariff is missing and a price exists.
NoTariffResult(f, kprice) ==
  LET t == Totals(f, kprice)
      tier_pct == _extract_tier_tariff_from_chunks(f.duty_chunks, t.usd_per_ton)
      tarif_persen == tier_pct
  IN  [ berat_bersih_kg |-> f.berat_bersih,
        berat_ton |-> f.berat_bersih \div 1000,
        harga_ekspor_per_ton_usd |-> t.harga_per_ton_usd,
        harga_ekspor_per_kg_usd |-> f.rag_price_per_kg,
        harga_komoditi |-> kprice,
        total_harga_ekspor_usd |-> t.total_usd,
        kurs_usd_idr |-> f.currency_rate,
        total_harga_ekspor_idr |-> t.total_idr,
        tarif_bea_keluar_persen |-> NoneOr(tarif_persen, 0),
        bea_keluar_idr |-> IF tarif_persen # None THEN PercentOf(tarif_persen, t) ELSE 0,
        calc_basis |-> IF tarif_persen # None THEN "tier percent from RAG"
                       ELSE "assumed 0% (no tariff found)",
        rag_source_count |-> Len(f.duty_chunks),
        can_compute |-> TRUE ]

\* Lines 569-576: a tier rule that applies overrides the flat percent.
EffPct_FlatFirst(tier_pct2, tarif_persen) ==
  IF tarif_persen # None THEN tarif_persen ELSE tier_pct2
EffPct(tier_pct2, tarif_persen) ==
  IF tier_pct2 # None THEN tier_pct2 ELSE tarif_persen

\* Lines 558-606.
PercentResult(f, kprice) ==
  LET t == Totals(f, kprice)
      tier_pct2 == _extract_tier_tariff_from_chunks(f.duty_chunks, t.usd_per_ton)
      eff_pct == EffPct(tier_pct2, f.rag_tarif_persen)
  IN  [ berat_bersih_kg |-> f.berat_bersih,
        berat_ton |-> f.berat_bersih \div 1000,
        harga_ekspor_per_ton_usd |-> t.harga_per_ton_usd,
        harga_ekspor_per_kg_usd |-> f.rag_price_per_kg,
        harga_komoditi |-> kprice,
        total_harga_ekspor_usd |-> t.total_usd,
        kurs_usd_idr |-> f.currency_rate,
        total_harga_ekspor_idr |-> t.total_idr,
        tarif_bea_keluar_persen |-> f.rag_tarif_persen,
        bea_keluar_idr |-> PercentOf(NoneOr(eff_pct, 0), t),
        rag_source_count |-> Len(f.duty_chunks),
        can_compute |-> TRUE ]

\* Lines 389-606 without the awaits: the dict the call returns.
Result(f) ==
  LET kprice == KomoditiPriceIdrPerKg(f.rag_price_per_kg, f.komoditi)
      tarif_persen == f.rag_tarif_persen
      missing_fields == MissingFields(tarif_persen, f.rag_price_per_kg, kprice)
      levy == Levy(f)
  IN  IF tarif_persen = None /\ (levy[1] # None \/ levy[2] # None)
      THEN LevyResult(f, levy[1], levy[2], kprice)
      ELSE IF missing_fields = <<"tarif_bea_keluar_persen">>
              /\ (f.rag_price_per_kg # None \/ kprice # None)
      THEN NoTariffResult(f, kprice)
      ELSE IF missing_fields # <<>>
      THEN MissingResult(f, missing_fields)
      ELSE PercentResult(f, kprice)

(***************************************************************************)
(* Conversation text: the current message and the turns of the history.    *)
(* A text is a sequence of words; a word is one item the extractors and    *)
(* the quick intent detection can see, with its length in characters.      *)
(***************************************************************************)
Word(k, str, n, len) == [k |-> k, s |-> str, n |-> n, len |-> len]

Filler(len)     == Word("filler", "", 0, len)      \* text that matches nothing
Kg(n)           == Word("kg", "", n, 8)            \* "n kg"
Country(c)      == Word("country", c, 0, 10)       \* the name of a country
Commodity(c)    == Word("commodity", c, 0, 8)      \* the name of a commodity
Kw(class)       == Word("kw", class, 0, 8)         \* a keyword of _quick_intent_detection
Exporter(name)  == Word("exporter", name, 0, 20)   \* "exporter: name"
Consignee(name) == Word("consignee", name, 0, 20)  \* "buyer: name"
Email(addr)     == Word("email", addr, 0, 16)      \* an e-mail address
Phone(number)   == Word("phone", number, 0, 16)    \* "telp: number"
Newline         == Filler(1)

\* Lines 875 and 882 of optimized_chatbot_service.py.
countries ==
  <<"Indonesia", "India", "Tiongkok", "China", "Bangladesh", "Malaysia", "Singapura",
    "Thailand", "Vietnam", "Filipina", "Jepang", "Korea", "Amerika", "USA", "Eropa",
    "Australia">>

commodities ==
  <<"CPO", "Crude Palm Oil", "Karet", "Kopi", "Kakao", "Cokelat", "Teh", "Beras",
    "Jagung", "Kedelai", "Gula", "Tembakau", "Kayu", "Batu Bara", "Minyak", "Gas">>

\* Lines 398-402: the list of _extract_proposal_data.
proposal_countries ==
  countries \o <<"United Kingdom", "UK", "United States", "Germany", "France", "Italy",
                 "Spain", "Netherlands", "Saudi Arabia", "UAE">>

Mentions(text, k) == {text[i].s : i \in {j \in 1..Len(text) : text[j].k = k}}

\* `for x in list: if x.lower() in text.lower(): ...; break`: the first item
\* of the list that the text mentions, whatever its place in the text.
FirstInList(list, mentioned) ==
  IF \E i \in 1..Len(list) : list[i] \in mentioned
  THEN list[CHOOSE i \in 1..Len(list) :
              /\ list[i] \in mentioned
              /\ \A j \in 1..(i - 1) : list[j] \notin mentioned]
  ELSE ""

\* re.search: the leftmost word of kind k, 0 if there is none.
FirstWord(text, k) ==
  IF \E i \in 1..Len(text) : text[i].k = k
  THEN CHOOSE i \in 1..Len(text) : text[i].k = k /\ \A j \in 1..(i - 1) : text[j].k # k
  ELSE 0

\* _extract_data_optimized (lines 857-898).
extract_data_optimized(text) ==
  [nama_produk     |-> FirstInList(commodities, Mentions(text, "commodity")),
   berat_bersih_kg |-> IF FirstWord(text, "kg") = 0 THEN None
                       ELSE text[FirstWord(text, "kg")].n,
   negara_tujuan   |-> FirstInList(countries, Mentions(text, "country"))]

RECURSIVE TextLen(_)
TextLen(text) == IF text = <<>> THEN 0 ELSE Head(text).len + TextLen(Tail(text))

\* text[:n]: the words that lie wholly within the first n characters (a word
\* that is cut matches nothing any more).
Slice(text, n) ==
  LET k == CHOOSE j \in 0..Len(text) :
             /\ TextLen(SubSeq(text, 1, j)) <= n
             /\ j < Len(text) => TextLen(SubSeq(text, 1, j + 1)) > n
  IN  SubSeq(text, 1, k)

\* "\n".join(parts)
RECURSIVE Join(_)
Join(parts) ==
  IF parts = <<>> THEN <<>>
  ELSE IF Len(parts) = 1 THEN parts[1]
  ELSE parts[1] \o <<Newline>> \o Join(Tail(parts))

\* history[-n:]
LastN(history, n) ==
  SubSeq(history, Max(1, Len(history) - n + 1), Len(history))

\* Lines 515-517 and 286-288: the user and assistant texts of the turns, in order.
RECURSIVE hist_text_parts(_)
hist_text_parts(turns) ==
  IF turns = <<>> THEN <<>>
  ELSE <<Head(turns).user_query, Head(turns).assistant_response>>
         \o hist_text_parts(Tail(turns))

\* Python's truth value of a field: None and "" are false for a name, None
\* and 0.0 for a number.
TruthyStr(v) == v # ""
TruthyNum(v) == v # None /\ v # 0

\* Lines 521-523: a field that is false in extracted_data takes the enriched
\* value, if that is true.
MergeData(extracted_data, enriched) ==
  [nama_produk     |-> IF ~TruthyStr(extracted_data.nama_produk)
                          /\ TruthyStr(enriched.nama_produk)
                       THEN enriched.nama_produk ELSE extracted_data.nama_produk,
   berat_bersih_kg |-> IF ~TruthyNum(extracted_data.berat_bersih_kg)
                          /\ TruthyNum(enriched.berat_bersih_kg)
                       THEN enriched.berat_bersih_kg ELSE extracted_data.berat_bersih_kg,
   negara_tujuan   |-> IF ~TruthyStr(extracted_data.negara_tujuan)
                          /\ TruthyStr(enriched.negara_tujuan)
                       THEN enriched.negara_tujuan ELSE extracted_data.negara_tujuan]

\* Line 487 and line 526.
Complete_NoDestination(extracted_data) ==
  /\ TruthyStr(extracted_data.nama_produk)
  /\ TruthyNum(extracted_data.berat_bersih_kg)
Complete(extracted_data) ==
  /\ TruthyStr(extracted_data.nama_produk)
  /\ TruthyNum(extracted_data.berat_bersih_kg)
  /\ TruthyStr(extracted_data.negara_tujuan)

\* Lines 686-692 of _generate_missing_data_response.
missing_fields_of(extracted_data) ==
  (IF ~TruthyStr(extracted_data.nama_produk) THEN <<"nama_produk">> ELSE <<>>)
  \o (IF ~TruthyNum(extracted_data.berat_bersih_kg) THEN <<"berat_bersih (kg)">> ELSE <<>>)
  \o (IF ~TruthyStr(extracted_data.negara_tujuan) THEN <<"negara_tujuan">> ELSE <<>>)

\* _extract_proposal_data (lines 369-444), for the five required fields; ""
\* stands for None and for a captured value that is empty once stripped.
\* (The date and the website are no required fields and are left out; so is
\* the "negara tujuan: ..." pattern, tried when no listed country occurs.)
NoProposalData ==
  [exporter_name |-> "", consignee_name |-> "", destination_country |-> "",
   contact_email |-> "", contact_phone |-> ""]

FirstValue(text, k) == IF FirstWord(text, k) = 0 THEN "" ELSE text[FirstWord(text, k)].s

extract_proposal_data(text) ==
  IF text = <<>> THEN NoProposalData
  ELSE [exporter_name       |-> FirstValue(text, "exporter"),
        consignee_name      |-> FirstValue(text, "consignee"),
        destination_country |-> FirstInList(proposal_countries, Mentions(text, "country")),
        contact_email       |-> FirstValue(text, "email"),
        contact_phone       |-> FirstValue(text, "phone")]

\* Lines 291-293: `if not merged.get(k) and v: merged[k] = v`.
MergeProposal(current, historical) ==
  [k \in DOMAIN current |-> IF current[k] = "" /\ historical[k] # "" THEN historical[k]
                            ELSE current[k]]

\* Lines 295-301.
required_fields_NoPhone ==
  <<"exporter_name", "consignee_name", "destination_country", "contact_email">>
required_fields ==
  <<"exporter_name", "consignee_name", "destination_country", "contact_email",
    "contact_phone">>

\* Line 302.
IsMissing(merged, f) == merged[f] = ""
missing_of(merged) == SelectSeq(required_fields, LAMBDA f : IsMissing(merged, f))

\* The keywords of _quick_intent_detection that a word contains: a phrase
\* of general_document_patterns contains "buat" and "dokumen", the pattern
\* "dokumen <name>" contains "dokumen" and the name, and "si", a document
\* name of line 105, occurs in three of the country names.
KeywordClasses(w) ==
  IF w.k = "kw"
  THEN CASE w.s = "general_document" -> {"general_document", "list", "template"}
         [] w.s = "dokumen_name"     -> {"dokumen_name", "list", "doc_name"}
         [] OTHER                    -> {w.s}
  ELSE IF w.k = "country" /\ w.s \in {"Indonesia", "Malaysia", "Singapura"}
  THEN {"doc_name"}
  ELSE {}

Keywords(text) == UNION {KeywordClasses(text[i]) : i \in 1..Len(text)}

\* _quick_intent_detection (lines 94-145).
quick_intent_detection(query) ==
  LET kw == Keywords(query)
  IN  IF "template" \in kw /\ "doc_name" \in kw THEN "document_template"
      ELSE IF "dokumen_name" \in kw THEN "document_template"
      ELSE IF "general_document" \in kw THEN "document_list"
      ELSE IF "list" \in kw THEN "document_list"
      ELSE IF "duty" \in kw THEN "export_duty"
      ELSE IF "proposal" \in kw THEN "export_proposal"
      ELSE "general_info"

\* _select_relevant_history (lines 813-855).  The embedding provider is
\* external: a turn carries the cosine of its embedding to the query's, in
\* hundredths, or None when the provider gives no embedding for its text.
HistoryWindow == 10                \* history[-10:], lines 826, 515 and 286
max_turns == 3                     \* line 49
similarity_threshold == 35         \* line 49, in hundredths
RescanLimit == 4000                \* line 518

Snippet(t) ==
  <<Filler(6)>> \o Slice(t.user_query, 300) \o <<Filler(12)>>
    \o Slice(t.assistant_response, 400)

\* The first k candidates in the order of the history, without the sort.
TopBySim_InOrder(scored, k) == SubSeq(scored, 1, Min(k, Len(scored)))

\* scored.sort(key=sim, reverse=True)[:k]: the sort is stable.
RECURSIVE TopBySim(_, _)
TopBySim(scored, k) ==
  IF k = 0 \/ scored = <<>> THEN <<>>
  ELSE LET i == CHOOSE i \in 1..Len(scored) :
                  /\ \A j \in 1..Len(scored) : scored[j].sim <= scored[i].sim
                  /\ \A j \in 1..(i - 1) : scored[j].sim < scored[i].sim
       IN  <<scored[i]>>
             \o TopBySim(SubSeq(scored, 1, i - 1) \o SubSeq(scored, i + 1, Len(scored)), k - 1)

select_relevant_history(query_emb, history) ==
  IF history = <<>> \/ query_emb = "empty" THEN <<>>
  ELSE LET scored == SelectSeq(LastN(history, HistoryWindow),
                               LAMBDA t : t.sim # None /\ t.sim >= similarity_threshold)
           top == TopBySim(scored, max_turns)
       IN  [i \in 1..Len(top) |-> Snippet(top[i])]

\* Line 479.
extraction_input(query, context_snippets) ==
  IF context_snippets = <<>> THEN query ELSE Join(<<query>> \o context_snippets)

\* Lines 514-518: the text of the re-scan.
augmented(query, full_history) ==
  Slice(Join(hist_text_parts(LastN(full_history, HistoryWindow)) \o <<query>>), RescanLimit)

\* Lines 479-523: the facts of the export_duty flow.
ExtractedData(query, context_snippets, full_history) ==
  LET extracted_data == extract_data_optimized(extraction_input(query, context_snippets))
  IN  IF Complete(extracted_data) \/ full_history = <<>> THEN extracted_data
      ELSE MergeData(extracted_data, extract_data_optimized(augmented(query, full_history)))

\* Lines 280-293: the facts of the export_proposal flow.
ProposalData(query, full_history) ==
  LET current == extract_proposal_data(query)
  IN  IF full_history = <<>> THEN current
      ELSE MergeProposal(current,
             extract_proposal_data(Join(hist_text_parts(LastN(full_history, HistoryWindow)))))

\* The queries: the embedding is empty (its creation failed) or not, the
\* text is empty or not.
Queries == [emb : {"empty", "E1"}, text : {"", "T1"}]

\* What a stage or the whole selection returns: no prompt, or the prompt of
\* id `id` (its position in the store; 0: the in-memory default) with its score.
NoMatch == [id |-> None, similarity |-> 0]
Match(id, sim) == [id |-> id, similarity |-> sim]

IdleSel ==
  [pc |-> "idle", query |-> [emb |-> "empty", text |-> ""], result |-> NoMatch,
   stages |-> <<>>]

\* No call was made on the PromptLibraryService yet.
IdleCall == [op |-> "none", prompt_id |-> None, result |-> <<>>]

SelIdle ==
  /\ active_prompts_cache = <<>>
  /\ prompt_id_cache = {}
  /\ lib_call = IdleCall
  /\ prompt_cache = [q \in Queries |-> NoMatch]
  /\ default_prompt_cache = FALSE
  /\ sel = IdleSel
  /\ n_select = 0

\* The facts of the export_duty flow; "" stands for None in the two names.
NoData == [nama_produk |-> "", berat_bersih_kg |-> None, negara_tujuan |-> ""]

NoResponse == [none |-> TRUE]

\* What the chat-completion collaborator of analyze_query_with_cot does:
\* the call raises, or it gives something that is no string, a text that is
\* no JSON, a JSON list, or a JSON object; for an object, intent "" and
\* confidence None stand for a key that is absent.
CotReply(kind, intent, confidence) ==
  [kind |-> kind, intent |-> intent, confidence |-> confidence]

NoReply == CotReply("", "", None)

\* An analysis; `escaped` names the exception that left the call, if any.
NoAnalysis == [intent |-> "", confidence |-> None, escaped |-> ""]

\* _get_fallback_analysis (chain_of_thought_service.py, lines 242-259).
FallbackAnalysis == [intent |-> "general_info", confidence |-> 50, escaped |-> ""]

\* The exception raised in the try block of analyze_query_with_cot ("": none):
\* the call of line 87 fails, json.loads rejects the text (line 95), or
\* analysis['intent'] and analysis['confidence'] of line 96 fail.
CotRaises(reply) ==
  CASE reply.kind = "raises"    -> "APIError"
    [] reply.kind = "not_json"  -> "JSONDecodeError"
    [] reply.kind = "json_list" -> "TypeError"
    [] reply.kind = "json" /\ (reply.intent = "" \/ reply.confidence = None) -> "KeyError"
    [] OTHER -> ""

\* `except Exception` of line 102 catches every kind.
analyze_except_APIError(exc) == exc = "APIError"
analyze_except_Exception(exc) ==
  exc \in {"APIError", "JSONDecodeError", "TypeError", "KeyError"}

\* analyze_query_with_cot (lines 20-104).
analyze_query_with_cot(reply) ==
  LET exc == CotRaises(reply)
  IN  IF reply.kind = "not_str" THEN FallbackAnalysis              \* lines 89-91
      ELSE IF exc = "" THEN [intent |-> reply.intent, confidence |-> reply.confidence,
                             escaped |-> ""]                       \* line 97
      ELSE IF exc = "JSONDecodeError" THEN FallbackAnalysis        \* lines 98-100
      ELSE IF analyze_except_Exception(exc) THEN FallbackAnalysis  \* lines 102-104
      ELSE [NoAnalysis EXCEPT !.escaped = exc]

IdleTurn ==
  [pc |-> "idle", query |-> <<>>, history |-> <<>>, quick_intent |-> "",
   selected_context |-> <<>>, cot_reply |-> NoReply, cot_analysis |-> NoAnalysis,
   cot_intent |-> "", query_embedding |-> "empty",
   current |-> NoData, extracted_data |-> NoData]

TurnIdle ==
  /\ turn = IdleTurn
  /\ embedding_cache = {}
  /\ generated = <<>>
  /\ duty_requests = <<>>
  /\ response = NoResponse

(***************************************************************************)
(* calculate_export_duty_optimized, one action per await.                  *)
(***************************************************************************)
DutyIdle ==
  /\ calc = IdleFrame
  /\ hasil = NoResult
  /\ llm_calls = 0
  /\ duty_cache = EmptyCache
  /\ n_calls = 0

DutyInit ==
  /\ komoditi_table \in KomoditiRows
  /\ currency_rates \in RateTables
  /\ export_duty_chunks \in ChunkSearches
  /\ DutyIdle
  /\ prompt_library = <<>>
  /\ prompt_id_seq = 1
  /\ SelIdle
  /\ TurnIdle

\* The caller invokes calculate_export_duty(nama_produk, berat_bersih, negara_tujuan).
calculate_export_duty(berat_bersih, negara_tujuan) ==
  /\ calc' = [IdleFrame EXCEPT !.pc = "gather", !.berat_bersih = berat_bersih,
                              !.negara_tujuan = negara_tujuan,
                              !.komoditi_task = "created", !.currency_task = "created"]
  /\ hasil' = NoResult
  /\ llm_calls' = 0
  /\ n_calls' = n_calls + 1
  /\ UNCHANGED <<komoditi_table, currency_rates, export_duty_chunks, duty_cache>>

CalcStart ==
  /\ calc.pc \in {"idle", "done", "raised"}
  /\ n_calls < MaxCalls
  /\ \E c \in DutyCalls : calculate_export_duty(c[1], c[2])
  /\ UNCHANGED <<sel_vars, turn_vars>>

\* get_komoditi_by_name_optimized up to its first await (lines 23-31): the
\* cached row is returned, or the query is sent on the session.
get_komoditi_by_name_optimized ==
  /\ calc.pc = "gather"
  /\ calc.komoditi_task = "created"
  /\ calc' = IF duty_cache.komoditi # <<>>
             THEN [calc EXCEPT !.komoditi_task = "done", !.komoditi = duty_cache.komoditi[1]]
             ELSE [calc EXCEPT !.komoditi_task = "execute",
                               !.db_in_flight = @ \cup {"komoditi_task"}]
  /\ UNCHANGED <<komoditi_table, currency_rates, export_duty_chunks, duty_cache, hasil,
                 llm_calls, n_calls>>
  /\ UNCHANGED <<sel_vars, turn_vars>>

\* Lines 31-60: the query answers (a row that is found is cached) or raises.
KomoditiFetched ==
  /\ calc.pc = "gather"
  /\ calc.komoditi_task = "execute"
  /\ \E db_ok \in BOOLEAN :
       IF db_ok
       THEN /\ calc' = [calc EXCEPT !.komoditi_task = "done", !.komoditi = komoditi_table,
                                    !.db_in_flight = @ \ {"komoditi_task"}]
            /\ duty_cache' = [duty_cache EXCEPT
                                !.komoditi = IF komoditi_table.found THEN <<komoditi_table>>
                                             ELSE @]
       ELSE /\ calc' = [calc EXCEPT !.komoditi_task = "raised",
                                    !.db_in_flight = @ \ {"komoditi_task"}]
            /\ UNCHANGED duty_cache
  /\ UNCHANGED <<komoditi_table, currency_rates, export_duty_chunks, hasil,
                 llm_calls, n_calls>>
  /\ UNCHANGED <<sel_vars, turn_vars>>

\* get_latest_currency_rate_optimized up to its first await (lines 66-79);
\* the task was created second and starts once the first one awaits.
get_latest_currency_rate_optimized ==
  /\ calc.pc = "gather"
  /\ calc.currency_task = "created"
  /\ calc.komoditi_task # "created"
  /\ calc' = IF duty_cache.currency # <<>>
             THEN [calc EXCEPT !.currency_task = "done",
                               !.currency_rate = duty_cache.currency[1]]
             ELSE [calc EXCEPT !.currency_task = "execute",
                               !.db_in_flight = @ \cup {"currency_task"}]
  /\ UNCHANGED <<komoditi_table, currency_rates, export_duty_chunks, duty_cache, hasil,
                 llm_calls, n_calls>>
  /\ UNCHANGED <<sel_vars, turn_vars>>

\* Lines 79-94: the query answers (a record that is found is cached) or raises.
CurrencyFetched ==
  /\ calc.pc = "gather"
  /\ calc.currency_task = "execute"
  /\ \E db_ok \in BOOLEAN :
       IF db_ok
       THEN LET rate == LatestRate(currency_rates, "USD")
            IN  /\ calc' = [calc EXCEPT !.currency_task = "done",
                                        !.currency_rate = rate,
                                        !.db_in_flight = @ \ {"currency_task"}]
                /\ duty_cache' = [duty_cache EXCEPT
                                    !.currency = IF rate # None THEN <<rate>> ELSE @]
       ELSE /\ calc' = [calc EXCEPT !.currency_task = "raised",
                                    !.db_in_flight = @ \ {"currency_task"}]
            /\ UNCHANGED duty_cache
  /\ UNCHANGED <<komoditi_table, currency_rates, export_duty_chunks, hasil,
                 llm_calls, n_calls>>
  /\ UNCHANGED <<sel_vars, turn_vars>>

\* Lines 369-375: the two tasks are joined.  A failing query, a missing
\* commodity and a missing rate all raise.
CalcGather ==
  /\ calc.pc = "gather"
  /\ calc.komoditi_task \in {"done", "raised"}
  /\ calc.currency_task \in {"done", "raised"}
  /\ calc' = IF "raised" \in {calc.komoditi_task, calc.currency_task}
             THEN [calc EXCEPT !.pc = "raised", !.komoditi_task = "idle",
                               !.currency_task = "idle",
                               !.komoditi = IdleFrame.komoditi,
                               !.currency_rate = IdleFrame.currency_rate]
             ELSE [calc EXCEPT !.pc = IF calc.komoditi.found /\ calc.currency_rate # None
                                      THEN "chunks" ELSE "raised",
                               !.komoditi_task = "idle", !.currency_task = "idle"]
  /\ UNCHANGED <<komoditi_table, currency_rates, export_duty_chunks, duty_cache, hasil,
                 llm_calls, n_calls>>
  /\ UNCHANGED <<sel_vars, turn_vars>>

\* What follows once rag_tarif_persen is settled (lines 389-438): either the
\* second delegated extraction is awaited, or the call returns.
AfterTariff(f) ==
  IF SecondLlmCall(f)
  THEN /\ calc' = [f EXCEPT !.pc = "llm2"]
       /\ hasil' = hasil
  ELSE /\ calc' = [f EXCEPT !.pc = "done"]
       /\ hasil' = Result(f)

\* Lines 377-387: the chunks are fetched (lines 100-102: cache first, under
\* the key of the product; a failing search gives the empty list and caches
\* nothing), tariff and price are extracted, and
\* the delegated extraction is awaited when no percent was found.
CalcChunks ==
  /\ calc.pc = "chunks"
  /\ \E search_ok \in BOOLEAN :
       LET cached == duty_cache.duty_chunks # <<>>
           duty_chunks == IF cached THEN duty_cache.duty_chunks[1]
                          ELSE IF search_ok THEN similarity_search(calc.negara_tujuan)
                          ELSE <<>>
           rag == _extract_tariff_and_price_from_chunks(duty_chunks)
           f == [calc EXCEPT !.duty_chunks = duty_chunks,
                             !.rag_tarif_persen = rag[1],
                             !.rag_price_per_kg = rag[2]]
       IN  /\ duty_cache' = IF cached \/ ~search_ok THEN duty_cache
                            ELSE [duty_cache EXCEPT !.duty_chunks = <<duty_chunks>>]
           /\ IF rag[1] = None /\ duty_chunks # <<>>
              THEN /\ calc' = [f EXCEPT !.pc = "llm1"]
                   /\ UNCHANGED hasil
              ELSE AfterTariff(f)
  /\ UNCHANGED <<komoditi_table, currency_rates, export_duty_chunks, llm_calls, n_calls>>
  /\ UNCHANGED <<sel_vars, turn_vars>>

\* Line 387: the delegated extraction answers with a number or with nothing.
CalcLlm1 ==
  /\ calc.pc = "llm1"
  /\ \E reply \in LlmReply : AfterTariff([calc EXCEPT !.rag_tarif_persen = reply])
  /\ llm_calls' = llm_calls + 1
  /\ UNCHANGED <<komoditi_table, currency_rates, export_duty_chunks, duty_cache, n_calls>>
  /\ UNCHANGED <<sel_vars, turn_vars>>

\* Line 437: the second delegated extraction; its answer is not used.
CalcLlm2 ==
  /\ calc.pc = "llm2"
  /\ \E reply \in LlmReply :
       /\ calc' = [calc EXCEPT !.pc = "done"]
       /\ hasil' = Result(calc)
  /\ llm_calls' = llm_calls + 1
  /\ UNCHANGED <<komoditi_table, currency_rates, export_duty_chunks, duty_cache, n_calls>>
  /\ UNCHANGED <<sel_vars, turn_vars>>

DutyNext ==
  \/ CalcStart
  \/ get_komoditi_by_name_optimized \/ KomoditiFetched
  \/ get_latest_currency_rate_optimized \/ CurrencyFetched
  \/ CalcGather \/ CalcChunks \/ CalcLlm1 \/ CalcLlm2

SpecDuty == DutyInit /\ [][DutyNext]_vars

(***************************************************************************)
(* Prompt selection: PromptLibraryService's retrieval stages and           *)
(* OptimizedChatbotService._get_prompt_optimized.                          *)
(*                                                                         *)
(* The embedding provider is external: a stored embedding is modelled by   *)
(* its kind and by its cosine to the query embedding, in hundredths.       *)
(* Scores are kept in units of 1/ScoreScale.                               *)
(***************************************************************************)
MaxPrompts     == 2                \* active prompts in the store
MaxSelectCalls == 2                \* calls of _get_prompt_optimized on one service instance

ScoreScale == 15 * 100
Scaled(hundredths) == 15 * hundredths

BlendedFloor == Scaled(55)         \* prompt_library_service.py:299
EmbOnlyThreshold == 70             \* optimized_chatbot_service.py:763, in hundredths

\* A stored prompt: the kind of its embedding column ("none": NULL, "list":
\* a list of the query's dimension, "dim": a list of another dimension,
\* "malformed": a string that is no JSON list), its cosine to the query
\* embedding and the number of its keywords that occur in the query text.
Prompt(emb, cos, matches) == [emb |-> emb, cos |-> cos, matches |-> matches]

PromptRows ==
  {Prompt(e[1], e[2], m) :
     e \in { <<"none", 0>>, <<"list", 90>>, <<"list", 60>>, <<"list", 0 - 20>>,
             <<"dim", 90>>, <<"malformed", 90>> },
     m \in {0, 1, 3}}

Corpora == SeqsUpTo(PromptRows, MaxPrompts)

\* Lines 258-277 of prompt_library_service.py: the cosine part of the blended
\* score; an embedding that is missing, unparseable or of another dimension
\* counts 0.
BlendedCosine(p, q) ==
  IF q.emb # "empty" /\ p.emb = "list" THEN p.cos ELSE 0

\* Lines 279-286: min(1, matches / 3), in thirds.
KeywordScore(p, q) ==
  IF q.text # "" THEN Min(3, p.matches) ELSE 0

\* Line 289: 0.8 * max(0, cosine) + 0.2 * keyword_score.
BlendedScore(p, q) ==
  12 * Max(0, BlendedCosine(p, q)) + 100 * KeywordScore(p, q)

\* The loops of the three searches keep the first prompt with the greatest
\* score: `if score > best_score`, starting from -1.
RECURSIVE BestFrom(_, _, _, _, _)
BestFrom(prompts, score, i, best_id, best_score) ==
  IF i > Len(prompts) THEN Match(best_id, best_score)
  ELSE IF score[i] # None /\ score[i] > best_score
       THEN BestFrom(prompts, score, i + 1, i, score[i])
  ELSE BestFrom(prompts, score, i + 1, best_id, best_score)

\* The blended search without the floor of line 299.
get_best_prompt_blended_NoFloor(prompts, q) ==
  IF q.text = "" /\ q.emb = "empty" THEN NoMatch
  ELSE IF prompts = <<>> THEN NoMatch
  ELSE BestFrom(prompts, [i \in 1..Len(prompts) |-> BlendedScore(prompts[i], q)],
                1, None, 0 - ScoreScale)

\* get_best_prompt_blended, given the prompts get_active_prompts returned.
get_best_prompt_blended(prompts, q) ==
  IF q.text = "" /\ q.emb = "empty" THEN NoMatch
  ELSE IF prompts = <<>> THEN NoMatch
  ELSE LET best == BestFrom(prompts, [i \in 1..Len(prompts) |-> BlendedScore(prompts[i], q)],
                            1, None, 0 - ScoreScale)
       IN  IF best.id = None \/ best.similarity < BlendedFloor THEN NoMatch ELSE best

\* get_most_similar_prompt_optimized, given the rows its query returned.  A
\* stored string that is no JSON list is turned into a list of characters,
\* whose conversion to numbers raises: the search ends with no match.
get_most_similar_prompt(prompts, q, threshold) ==
  IF q.emb = "empty" \/ prompts = <<>> THEN NoMatch
  ELSE IF \E i \in 1..Len(prompts) : prompts[i].emb = "malformed" THEN NoMatch
  ELSE LET best == BestFrom(prompts,
                            [i \in 1..Len(prompts) |->
                               IF prompts[i].emb = "list" THEN Scaled(prompts[i].cos) ELSE None],
                            1, None, 0 - ScoreScale)
       IN  IF best.id = None \/ best.similarity < Scaled(threshold) THEN NoMatch
           ELSE Match(best.id, Max(best.similarity, 0))

\* get_best_prompt_by_keywords: 0.5 + 0.1 per match, at most 0.95; 0 without a match.
KeywordOnlyScore(p, q) ==
  IF p.matches > 0 /\ q.text # "" THEN Scaled(Min(95, 50 + 10 * p.matches)) ELSE 0

get_best_prompt_by_keywords(prompts, q) ==
  IF prompts = <<>> THEN NoMatch
  ELSE LET best == BestFrom(prompts, [i \in 1..Len(prompts) |-> KeywordOnlyScore(prompts[i], q)],
                            1, None, 0 - ScoreScale)
       IN  IF best.id = None THEN NoMatch ELSE Match(best.id, Max(0, best.similarity))

\* The stages in the order of the fallback chain.
StageOrder == <<"blended", "emb_only", "keywords", "first_active", "default">>

\* Lines 751-753: a cached result is returned at once.
get_prompt_optimized(q) ==
  /\ n_select' = n_select + 1
  /\ sel' = IF prompt_cache[q].id # None
            THEN [pc |-> "done", query |-> q, result |-> prompt_cache[q], stages |-> <<>>]
            ELSE [pc |-> "blended", query |-> q, result |-> NoMatch, stages |-> <<>>]
  /\ UNCHANGED <<prompt_library, active_prompts_cache, prompt_cache, default_prompt_cache,
                 lib_vars>>

SelCall ==
  /\ sel.pc \in {"idle", "done"}
  /\ n_select < MaxSelectCalls
  /\ \E q \in Queries : get_prompt_optimized(q)
  /\ UNCHANGED <<duty_vars, turn_vars>>

\* get_active_prompts: the cached list, or the rows of the store (then cached).
\* found = FALSE: the query failed and the call raised.
ActivePrompts(db_ok) ==
  IF active_prompts_cache # <<>>
  THEN [found |-> TRUE, prompts |-> active_prompts_cache[1], cache |-> active_prompts_cache]
  ELSE IF db_ok
  THEN [found |-> TRUE, prompts |-> prompt_library, cache |-> <<prompt_library>>]
  ELSE [found |-> FALSE, prompts |-> <<>>, cache |-> <<>>]

\* Lines 756-781: the stage tried after `stage`, given what it returned.
NextStage_KeywordsFirst(stage, returned, query_text) ==
  CASE returned -> "return"
    [] stage = "blended" -> IF query_text # "" THEN "keywords" ELSE "emb_only"
    [] stage = "keywords" -> "emb_only"
    [] stage = "emb_only" -> "first_active"
    [] OTHER -> "return"
NextStage(stage, returned, query_text) ==
  CASE returned -> "return"
    [] stage = "blended" -> "emb_only"
    [] stage = "emb_only" -> IF query_text # "" THEN "keywords" ELSE "first_active"
    [] stage = "keywords" -> "first_active"
    [] OTHER -> "return"

\* One stage has answered `got`: either the next stage is awaited, or the
\* call ends (lines 783-795): the in-memory default stands in for no prompt,
\* the result is cached and returned.  `searched` tells whether the stage
\* obtained the prompts of the store and went through them.
AfterStage(stage, threshold, searched, got) ==
  LET log  == Append(sel.stages, [stage |-> stage, threshold |-> threshold,
                                  searched |-> searched, returned |-> got.id # None])
      next == NextStage(stage, got.id # None, sel.query.text)
  IN  IF next # "return"
      THEN /\ sel' = [sel EXCEPT !.pc = next, !.stages = log]
           /\ UNCHANGED <<prompt_cache, default_prompt_cache>>
      ELSE LET result == IF got.id # None THEN got ELSE Match(0, 0)
               log2 == IF got.id # None THEN log
                       ELSE Append(log, [stage |-> "default", threshold |-> None,
                                         searched |-> FALSE, returned |-> TRUE])
           IN  /\ sel' = [sel EXCEPT !.pc = "done", !.stages = log2, !.result = result]
               /\ prompt_cache' = [prompt_cache EXCEPT ![sel.query] = result]
               /\ default_prompt_cache' = (default_prompt_cache \/ got.id = None)

\* Line 756: the blended search.
SelBlended ==
  /\ sel.pc = "blended"
  /\ \E db_ok \in BOOLEAN :
       LET early == sel.query.text = "" /\ sel.query.emb = "empty"
           ap == ActivePrompts(db_ok)
       IN  /\ active_prompts_cache' = IF early THEN active_prompts_cache ELSE ap.cache
           /\ AfterStage("blended", None, ~early /\ ap.found,
                IF early \/ ~ap.found THEN NoMatch
                ELSE get_best_prompt_blended(ap.prompts, sel.query))
  /\ UNCHANGED <<prompt_library, n_select, lib_vars>>
  /\ UNCHANGED <<duty_vars, turn_vars>>

\* Line 763: the embeddings-only search with threshold 0.7; it queries the store itself.
SelEmbOnly ==
  /\ sel.pc = "emb_only"
  /\ \E db_ok \in BOOLEAN :
       AfterStage("emb_only", EmbOnlyThreshold, sel.query.emb # "empty" /\ db_ok,
         IF sel.query.emb = "empty" \/ ~db_ok THEN NoMatch
         ELSE get_most_similar_prompt(prompt_library, sel.query, EmbOnlyThreshold))
  /\ UNCHANGED <<prompt_library, active_prompts_cache, n_select, lib_vars>>
  /\ UNCHANGED <<duty_vars, turn_vars>>

\* Lines 768-771: the keywords-only search.
SelKeywords ==
  /\ sel.pc = "keywords"
  /\ \E db_ok \in BOOLEAN :
       LET ap == ActivePrompts(db_ok)
       IN  /\ active_prompts_cache' = ap.cache
           /\ AfterStage("keywords", None, ap.found,
                IF ~ap.found THEN NoMatch
                ELSE get_best_prompt_by_keywords(ap.prompts, sel.query))
  /\ UNCHANGED <<prompt_library, n_select, lib_vars>>
  /\ UNCHANGED <<duty_vars, turn_vars>>

\* Lines 773-781: the first active prompt, with similarity 0.
SelFirstActive ==
  /\ sel.pc = "first_active"
  /\ \E db_ok \in BOOLEAN :
       LET ap == ActivePrompts(db_ok)
       IN  /\ active_prompts_cache' = ap.cache
           /\ AfterStage("first_active", None, ap.found,
                IF ap.found /\ ap.prompts # <<>> THEN Match(1, 0) ELSE NoMatch)
  /\ UNCHANGED <<prompt_library, n_select, lib_vars>>
  /\ UNCHANGED <<duty_vars, turn_vars>>

SelNext == SelCall \/ SelBlended \/ SelEmbOnly \/ SelKeywords \/ SelFirstActive

PromptInit ==
  /\ prompt_library \in Corpora
  /\ prompt_id_seq = Len(prompt_library) + 1
  /\ SelIdle
  /\ komoditi_table = Komoditi(FALSE, None, "")
  /\ currency_rates = {}
  /\ export_duty_chunks = [d \in Destinations |-> <<>>]
  /\ DutyIdle
  /\ TurnIdle

SpecPrompt == PromptInit /\ [][SelNext]_vars

(***************************************************************************)
(* The maintenance of the prompt library on one PromptLibraryService:      *)
(* get_by_id, create, update, delete, log_prompt_usage, get_active_prompts.*)
(* A row is known by its id; the cached objects are named by their ids.    *)
(***************************************************************************)
MaxPromptId == 2                   \* ids the sequence of the id column gives out
MaxUsage    == 1                   \* usage_count of a row

PromptIds == 1..MaxPromptId

PromptRow(id, is_active, usage_count) ==
  [id |-> id, is_active |-> is_active, usage_count |-> usage_count]

\* The table when the service is constructed.
PromptTables == {<<>>, <<PromptRow(1, TRUE, 0)>>}

Stored(prompt_id) == \E i \in 1..Len(prompt_library) : prompt_library[i].id = prompt_id

\* Lines 33-43: get_by_id finds the prompt under its cache key, or in the
\* table (and then caches it).
Found(prompt_id) == prompt_id \in prompt_id_cache \/ Stored(prompt_id)

Call(op, prompt_id, result) == [op |-> op, prompt_id |-> prompt_id, result |-> result]

get_by_id ==
  /\ \E prompt_id \in PromptIds :
       /\ lib_call' = Call("get_by_id", prompt_id,
                         IF Found(prompt_id) THEN <<prompt_id>> ELSE <<>>)
       /\ prompt_id_cache' = IF Found(prompt_id) THEN prompt_id_cache \cup {prompt_id}
                             ELSE prompt_id_cache
  /\ UNCHANGED <<prompt_library, prompt_id_seq, active_prompts_cache>>
  /\ UNCHANGED <<prompt_cache, default_prompt_cache, sel, n_select, duty_vars, turn_vars>>

\* Lines 45-51: the row is added and committed; no cache is touched.
create ==
  /\ prompt_id_seq <= MaxPromptId
  /\ \E is_active \in BOOLEAN :
       prompt_library' = Append(prompt_library, PromptRow(prompt_id_seq, is_active, 0))
  /\ prompt_id_seq' = prompt_id_seq + 1
  /\ lib_call' = Call("create", prompt_id_seq, <<prompt_id_seq>>)
  /\ UNCHANGED <<active_prompts_cache, prompt_id_cache>>
  /\ UNCHANGED <<prompt_cache, default_prompt_cache, sel, n_select, duty_vars, turn_vars>>

\* Lines 53-68: the prompt is fetched with get_by_id, its cache key is
\* deleted, the fields are set and committed.
update ==
  /\ \E prompt_id \in PromptIds, is_active \in BOOLEAN :
       IF ~Found(prompt_id)
       THEN /\ lib_call' = Call("update", prompt_id, <<>>)
            /\ UNCHANGED <<prompt_library, prompt_id_cache>>
       ELSE /\ lib_call' = Call("update", prompt_id, <<prompt_id>>)
            /\ prompt_id_cache' = prompt_id_cache \ {prompt_id}
            /\ prompt_library' =
                 [i \in 1..Len(prompt_library) |->
                    IF prompt_library[i].id = prompt_id
                    THEN [prompt_library[i] EXCEPT !.is_active = is_active]
                    ELSE prompt_library[i]]
  /\ UNCHANGED <<prompt_id_seq, active_prompts_cache>>
  /\ UNCHANGED <<prompt_cache, default_prompt_cache, sel, n_select, duty_vars, turn_vars>>

\* Lines 70-84: the prompt is fetched with get_by_id, its cache key is
\* deleted, the row is deleted and committed.
delete ==
  /\ \E prompt_id \in PromptIds :
       IF ~Found(prompt_id)
       THEN /\ lib_call' = Call("delete", prompt_id, <<>>)
            /\ UNCHANGED <<prompt_library, prompt_id_cache>>
       ELSE /\ lib_call' = Call("delete", prompt_id, <<prompt_id>>)
            /\ prompt_id_cache' = prompt_id_cache \ {prompt_id}
            /\ prompt_library' = SelectSeq(prompt_library, LAMBDA r : r.id # prompt_id)
  /\ UNCHANGED <<prompt_id_seq, active_prompts_cache>>
  /\ UNCHANGED <<prompt_cache, default_prompt_cache, sel, n_select, duty_vars, turn_vars>>

\* Lines 86-111: usage_count of the row is raised by an UPDATE statement
\* and the cache key of the prompt is deleted.
log_prompt_usage ==
  /\ \E prompt_id \in PromptIds :
       /\ \A i \in 1..Len(prompt_library) :
            prompt_library[i].id = prompt_id => prompt_library[i].usage_count < MaxUsage
       /\ lib_call' = Call("log_prompt_usage", prompt_id, <<>>)
       /\ prompt_id_cache' = prompt_id_cache \ {prompt_id}
       /\ prompt_library' =
            [i \in 1..Len(prompt_library) |->
               IF prompt_library[i].id = prompt_id
               THEN [prompt_library[i] EXCEPT !.usage_count = @ + 1]
               ELSE prompt_library[i]]
  /\ UNCHANGED <<prompt_id_seq, active_prompts_cache>>
  /\ UNCHANGED <<prompt_cache, default_prompt_cache, sel, n_select, duty_vars, turn_vars>>

\* The ids of the rows a query for is_active == True returns.
ActiveIds ==
  LET rows == SelectSeq(prompt_library, LAMBDA r : r.is_active)
  IN  [i \in 1..Len(rows) |-> rows[i].id]

\* Lines 202-213: the list under the key "active_prompts", or the rows of
\* the query, which are then cached.
get_active_prompts ==
  /\ IF active_prompts_cache # <<>>
     THEN /\ lib_call' = Call("get_active_prompts", None, active_prompts_cache[1])
          /\ UNCHANGED active_prompts_cache
     ELSE /\ lib_call' = Call("get_active_prompts", None, ActiveIds)
          /\ active_prompts_cache' = <<ActiveIds>>
  /\ UNCHANGED <<prompt_library, prompt_id_seq, prompt_id_cache>>
  /\ UNCHANGED <<prompt_cache, default_prompt_cache, sel, n_select, duty_vars, turn_vars>>

LibNext ==
  get_by_id \/ create \/ update \/ delete \/ log_prompt_usage \/ get_active_prompts

LibInit ==
  /\ prompt_library \in PromptTables
  /\ prompt_id_seq = Len(prompt_library) + 1
  /\ SelIdle
  /\ komoditi_table = Komoditi(FALSE, None, "")
  /\ currency_rates = {}
  /\ export_duty_chunks = [d \in Destinations |-> <<>>]
  /\ DutyIdle
  /\ TurnIdle

SpecLib == LibInit /\ [][LibNext]_vars

(***************************************************************************)
(* process_chatbot_query and the flows it dispatches to.                   *)
(***************************************************************************)
MaxTail  == 2                      \* the latest turns of the history
PadTurns == 9                      \* turns of small talk before them, if any

Turn(user_query, assistant_response, sim) ==
  [user_query |-> user_query, assistant_response |-> assistant_response, sim |-> sim]

PadTurn == Turn(<<Filler(40)>>, <<Filler(40)>>, 40)

\* The turn that opens a long history.
OldTurn == Turn(<<Filler(20), Country("Thailand")>>, <<Filler(40)>>, 80)

Turns ==
  { Turn(<<Filler(20), Country("India")>>, <<Filler(40)>>, 80),
    Turn(<<Filler(2100)>>, <<Filler(2100)>>, 20),
    Turn(<<Kg(500), Commodity("Kopi")>>, <<>>, 80),
    Turn(<<Kw("proposal"), Exporter("PT Maju"), Consignee("Acme")>>, <<Filler(40)>>, None),
    Turn(<<Exporter("CV Lain"), Country("India"), Email("a@x.id"), Phone("0812")>>, <<>>, 20) }

Histories ==
  {old \o tail :
     old \in {<<>>, <<OldTurn>> \o [i \in 1..PadTurns |-> PadTurn]},
     tail \in SeqsUpTo(Turns, MaxTail)}

Messages ==
  { <<Kw("duty"), Kg(1000), Commodity("Kakao"), Country("Malaysia")>>,
    <<Kw("duty"), Kg(1000), Commodity("Kakao")>>,
    <<Kw("duty"), Commodity("Kakao"), Country("India")>>,
    <<Kw("duty"), Kg(1000), Country("Vietnam")>>,
    <<Kw("duty"), Kg(0), Commodity("Kakao"), Country("India")>>,
    <<Kw("proposal"), Exporter("PT Baru"), Consignee("Bolt"), Country("Vietnam"),
      Email("b@y.id"), Phone("0813")>>,
    <<Kw("proposal"), Exporter("PT Baru"), Consignee("Bolt"), Country("Vietnam"),
      Email("b@y.id")>>,
    <<Kw("proposal")>>,
    <<Email("b@y.id"), Phone("0813")>>,
    <<Kw("list")>>,
    <<Kw("template"), Kw("doc_name")>> }

\* What the semantic classifier may answer (line 68 tests for "export_duty").
CotIntents == {"export_duty", "general_info"}

CotReplies ==
  {CotReply("json", intent, 95) : intent \in CotIntents}
    \cup { CotReply("raises", "", None), CotReply("not_str", "", None),
           CotReply("not_json", "", None), CotReply("json_list", "", None),
           CotReply("json", "", 95), CotReply("json", "export_duty", None) }

\* What the document service may do: raise, or return one of the results
\* that _handle_document_query tells apart (lines 163-237).
DocumentResults == {"raises", "general", "one_template", "many_templates", "no_template"}

ExceptionKinds == {"ValueError", "OperationalError"}

\* `except Exception` (lines 82, 259, 359, 562 and 600) catches every kind.
except_ValueError(exc) == exc = "ValueError"
except_Exception(exc) == exc \in ExceptionKinds

\* The three shapes an exception raised in a handler can end in: the
\* handler's error result, the error result of process_chatbot_query, or the
\* exception itself, with the caller.
HandlerError == [answer |-> "error_response", success |-> FALSE, optimized |-> TRUE]

Raised(exc) ==
  IF except_Exception(exc) THEN HandlerError
  ELSE IF except_Exception(exc)
  THEN [answer |-> "error_response", success |-> FALSE, error |-> exc]
  ELSE [escaped |-> exc]

\* The analysis a handler hands to generate_response_with_cot.
Analysis(intent, missing_fields) == [intent |-> intent, missing_fields |-> missing_fields]

\* The key of _get_prompt_optimized for the current message.
PromptQuery(query_embedding, query) ==
  [emb |-> query_embedding, text |-> IF query = <<>> THEN "" ELSE "T1"]

\* _create_embedding_optimized(query) (lines 725-745): the cached vector, or
\* what the provider gives; a failure gives the empty list and caches nothing.
create_embedding(provider_ok) ==
  IF "query" \in embedding_cache \/ provider_ok THEN "E1" ELSE "empty"

\* Lines 46-57: the quick intent, the relevant history, and the dispatch of
\* the document and proposal intents.
ProcessChatbotQuery ==
  /\ turn.pc = "idle"
  /\ \E query \in Messages, conversation_history \in Histories, provider_ok \in BOOLEAN :
       LET quick_intent == quick_intent_detection(query)
           query_emb == IF conversation_history = <<>> THEN "empty"
                        ELSE create_embedding(provider_ok)
       IN  /\ turn' = [IdleTurn EXCEPT
                         !.pc = IF quick_intent \in {"document_template", "document_list"}
                                THEN "document"
                                ELSE IF quick_intent = "export_proposal" THEN "proposal"
                                ELSE "analyze",
                         !.query = query,
                         !.history = conversation_history,
                         !.quick_intent = quick_intent,
                         !.selected_context =
                            select_relevant_history(query_emb, conversation_history)]
           /\ embedding_cache' = IF query_emb = "E1" THEN {"query"} ELSE {}
  /\ UNCHANGED <<generated, duty_requests, response, duty_vars, sel_vars>>

\* Lines 152-159: the document service answers or raises; then the prompt is selected.
HandleDocumentQuery ==
  /\ turn.pc = "document"
  /\ \E document_result \in DocumentResults, exc \in ExceptionKinds, provider_ok \in BOOLEAN :
       IF document_result = "raises"
       THEN /\ turn' = [turn EXCEPT !.pc = "done"]
            /\ response' = Raised(exc)
            /\ generated' = Append(generated, Analysis("error", <<>>))
            /\ UNCHANGED <<embedding_cache, sel_vars>>
       ELSE /\ turn' = [turn EXCEPT !.pc = "document_prompt",
                                    !.cot_intent = document_result,
                                    !.query_embedding = create_embedding(provider_ok)]
            /\ embedding_cache' = IF create_embedding(provider_ok) = "E1" THEN {"query"}
                                  ELSE embedding_cache
            /\ get_prompt_optimized(PromptQuery(create_embedding(provider_ok), turn.query))
            /\ UNCHANGED <<generated, response>>
  /\ UNCHANGED <<duty_requests, duty_vars>>

\* Lines 163-257: the answer is generated and the result returned.
DocumentRespond ==
  /\ turn.pc = "document_prompt"
  /\ sel.pc = "done"
  /\ turn' = [turn EXCEPT !.pc = "done"]
  /\ generated' = Append(generated,
                    Analysis(IF turn.quick_intent = "document_list" \/ turn.cot_intent = "general"
                             THEN "document_list" ELSE "document_template", <<>>))
  /\ response' =
       IF turn.quick_intent = "document_list"
       THEN [answer |-> "text", promptId |-> sel.result.id,
             similarity |-> sel.result.similarity, success |-> TRUE, optimized |-> TRUE]
       ELSE [answer |-> "text", promptId |-> sel.result.id,
             similarity |-> sel.result.similarity,
             htmlTemplate |-> IF turn.cot_intent = "one_template" THEN "html" ELSE "",
             success |-> turn.cot_intent \in {"general", "one_template"},
             optimized |-> TRUE]
  /\ UNCHANGED <<embedding_cache, duty_requests, duty_vars, sel_vars>>

\* _handle_export_proposal (lines 269-367).
HandleExportProposal ==
  /\ turn.pc = "proposal"
  /\ LET merged == ProposalData(turn.query, turn.history)
         missing == missing_of(merged)
     IN  /\ turn' = [turn EXCEPT !.pc = "done"]
         /\ generated' = Append(generated, Analysis("export_proposal", missing))
         /\ response' =
              IF missing # <<>>
              THEN [answer |-> "text", generateProposal |-> FALSE, promptId |-> 6,
                    proposalData |-> merged, missingFields |-> missing,
                    success |-> TRUE, optimized |-> TRUE]
              ELSE [answer |-> "text", htmlTemplate |-> "EXPORT_PROPOSAL_HTML_TEMPLATE",
                    generateProposal |-> TRUE, promptId |-> 6,
                    proposalVariables |-> merged,
                    success |-> TRUE, optimized |-> TRUE]
  /\ UNCHANGED <<embedding_cache, duty_requests, duty_vars, sel_vars>>

\* Lines 60-80 and 478, 578: the classifier and the embedding provider
\* answer; either handler starts with the selection of the prompt.  An
\* exception that left the analysis would end the call at line 82.
Analyze ==
  /\ turn.pc = "analyze"
  /\ \E reply \in CotReplies, provider_ok \in BOOLEAN :
       LET cot_analysis == analyze_query_with_cot(reply)
           f == [turn EXCEPT !.cot_reply = reply,
                             !.cot_analysis = cot_analysis,
                             !.cot_intent = cot_analysis.intent,
                             !.query_embedding = create_embedding(provider_ok)]
       IN  /\ embedding_cache' = IF create_embedding(provider_ok) = "E1" THEN {"query"}
                                 ELSE embedding_cache
           /\ IF cot_analysis.escaped # ""
              THEN /\ turn' = [f EXCEPT !.pc = "done"]
                   /\ response' = [answer |-> "error_response", success |-> FALSE,
                                   error |-> cot_analysis.escaped]
                   /\ generated' = Append(generated, Analysis("error", <<>>))
                   /\ UNCHANGED sel_vars
              ELSE /\ turn' = [f EXCEPT !.pc = IF cot_analysis.intent = "export_duty"
                                               THEN "duty_prompt" ELSE "general_prompt"]
                   /\ get_prompt_optimized(PromptQuery(create_embedding(provider_ok),
                                                       turn.query))
                   /\ UNCHANGED <<generated, response>>
  /\ UNCHANGED <<duty_requests, duty_vars>>

\* _handle_general_response_optimized (lines 572-608).
GeneralRespond ==
  /\ turn.pc = "general_prompt"
  /\ sel.pc = "done"
  /\ turn' = [turn EXCEPT !.pc = "done"]
  /\ generated' = Append(generated, Analysis(turn.cot_intent, <<>>))
  /\ response' = [answer |-> "text", promptId |-> sel.result.id,
                  similarity |-> sel.result.similarity, cotUsed |-> TRUE, optimized |-> TRUE]
  /\ UNCHANGED <<embedding_cache, duty_requests, duty_vars, sel_vars>>

\* Lines 479-560: the facts are extracted and merged; the calculation is
\* called when they are complete, and the missing ones are asked for otherwise.
HandleExportDuty ==
  /\ turn.pc = "duty_prompt"
  /\ sel.pc = "done"
  /\ LET extracted_data == ExtractedData(turn.query, turn.selected_context, turn.history)
         f == [turn EXCEPT !.current = extract_data_optimized(turn.query),
                           !.extracted_data = extracted_data]
     IN  IF Complete(extracted_data)
         THEN /\ turn' = [f EXCEPT !.pc = "duty_calc"]
              /\ duty_requests' = Append(duty_requests, extracted_data)
              /\ calculate_export_duty(extracted_data.berat_bersih_kg,
                                       extracted_data.negara_tujuan)
              /\ UNCHANGED <<generated, response>>
         ELSE /\ turn' = [f EXCEPT !.pc = "done"]
              /\ generated' = Append(generated,
                                Analysis("export_duty", missing_fields_of(extracted_data)))
              /\ response' = [answer |-> "text", promptId |-> sel.result.id,
                              similarity |-> sel.result.similarity,
                              extractedData |-> extracted_data,
                              cotUsed |-> TRUE, optimized |-> TRUE]
              /\ UNCHANGED <<duty_requests, duty_vars>>
  /\ UNCHANGED <<embedding_cache, sel_vars>>

\* Lines 489-510 and 527-545: the calculation has returned or raised.
ExportDutyRespond ==
  /\ turn.pc = "duty_calc"
  /\ calc.pc \in {"done", "raised"}
  /\ turn' = [turn EXCEPT !.pc = "done"]
  /\ \E exc \in ExceptionKinds :
       IF calc.pc = "raised"
       THEN /\ response' = Raised(exc)
            /\ generated' = Append(generated, Analysis("error", <<>>))
       ELSE /\ response' = [answer |-> "text", promptId |-> sel.result.id,
                            similarity |-> sel.result.similarity,
                            extractedData |-> turn.extracted_data,
                            calculationDetails |-> hasil,
                            cotUsed |-> TRUE, optimized |-> TRUE]
            /\ generated' = Append(generated, Analysis("export_duty", <<>>))
  /\ UNCHANGED <<embedding_cache, duty_requests, duty_vars, sel_vars>>

TurnInit ==
  /\ TurnIdle
  /\ komoditi_table \in {Komoditi(FALSE, None, ""), Komoditi(TRUE, 25000, "kg")}
  /\ currency_rates = {RateRecord("USD", "IDR", 10000, 1, 1)}
  /\ export_duty_chunks = [d \in Destinations |-> << <<UsdTon(2500)>> >>]
  /\ DutyIdle
  /\ prompt_library = <<Prompt("list", 90, 1)>>
  /\ prompt_id_seq = 2
  /\ SelIdle

TurnNext ==
  \/ ProcessChatbotQuery
  \/ HandleDocumentQuery \/ DocumentRespond
  \/ HandleExportProposal
  \/ Analyze \/ GeneralRespond
  \/ HandleExportDuty \/ ExportDutyRespond
  \/ SelBlended \/ SelEmbOnly \/ SelKeywords \/ SelFirstActive
  \/ get_komoditi_by_name_optimized \/ KomoditiFetched
  \/ get_latest_currency_rate_optimized \/ CurrencyFetched
  \/ CalcGather \/ CalcChunks \/ CalcLlm1 \/ CalcLlm2

SpecTurn == TurnInit /\ [][TurnNext]_vars

(***************************************************************************)
(* Properties of the duty calculation.                                     *)
(***************************************************************************)
DutyDone == calc.pc = "done"

AssumedZero == "assumed 0% (no tariff found)"

\* The price the calculation uses, in USD per ton (None: no price).
UnitPriceUsdPerTon ==
  LET kprice == KomoditiPriceIdrPerKg(calc.rag_price_per_kg, calc.komoditi)
  IN  IF calc.rag_price_per_kg = None /\ kprice = None THEN None
      ELSE Totals(calc, kprice).usd_per_ton

\* No percent (from the patterns or the delegated extraction), no specific
\* levy and no applicable tier rule was obtained.
NoTariffObtained ==
  /\ calc.rag_tarif_persen = None
  /\ _extract_specific_levy_from_chunks(calc.duty_chunks) = <<None, None>>
  /\ _extract_tier_tariff_from_chunks(calc.duty_chunks, UnitPriceUsdPerTon) = None

\* C7: when no percent, no specific levy and no tier rule is obtained while a
\* unit price is available, the call returns can_compute = true with a duty of
\* 0 and calc_basis "assumed 0% (no tariff found)"; no result computed without
\* a tariff lacks that label.
C7_AssumedZeroLabelled ==
  (DutyDone /\ NoTariffObtained) =>
     /\ UnitPriceUsdPerTon # None =>
          /\ hasil.can_compute
          /\ hasil.bea_keluar_idr = 0
          /\ "calc_basis" \in DOMAIN hasil
          /\ hasil.calc_basis = AssumedZero
     /\ hasil.can_compute =>
          /\ "calc_basis" \in DOMAIN hasil
          /\ hasil.calc_basis = AssumedZero

\* The delegated extraction was asked and gave nothing, the catalog gave the price.
C7_Witness ==
  /\ DutyDone /\ NoTariffObtained
  /\ calc.duty_chunks # <<>> /\ llm_calls > 0
  /\ UnitPriceUsdPerTon = 2500
  /\ hasil.can_compute /\ hasil.calc_basis = AssumedZero

\* C8: every result with can_compute = true carries a calc_basis tag naming
\* the tariff path that produced the duty, and every result with
\* can_compute = false carries a non-empty missing_fields list.
C8_BasisTagged ==
  DutyDone =>
    IF hasil.can_compute
    THEN "calc_basis" \in DOMAIN hasil
    ELSE "missing_fields" \in DOMAIN hasil /\ hasil.missing_fields # <<>>

\* The flat-percent path: a percent was obtained, the price comes from the
\* chunks (USD), and no tier rule applies at that price.
FlatPercentPath ==
  /\ DutyDone
  /\ calc.rag_tarif_persen # None
  /\ calc.rag_price_per_kg # None
  /\ _extract_tier_tariff_from_chunks(calc.duty_chunks, calc.rag_price_per_kg) = None

ScenarioA ==
  /\ calc.duty_chunks = << <<Tarif, BK, Pct(5), UsdTon(2000)>> >>
  /\ calc.berat_bersih = 10000
  /\ calc.currency_rate = 10000
  /\ calc.komoditi = Komoditi(TRUE, None, "kg")

\* C9: on the flat-percent path with the chunk price p (USD per kg, kept in
\* thousandths), weight w, rate r and percent t: total USD = p*w,
\* total IDR = p*w*r and duty = t/100 * p*w*r; scenario A gives 20000,
\* 200000000 and 10000000.
C9_FlatPercentAmounts ==
  FlatPercentPath =>
    /\ hasil.can_compute
    /\ hasil.total_harga_ekspor_usd * 1000 = calc.rag_price_per_kg * calc.berat_bersih
    /\ hasil.total_harga_ekspor_idr = hasil.total_harga_ekspor_usd * calc.currency_rate
    /\ hasil.bea_keluar_idr * 100 = calc.rag_tarif_persen * hasil.total_harga_ekspor_idr
    /\ ScenarioA =>
         /\ hasil.total_harga_ekspor_usd = 20000
         /\ hasil.total_harga_ekspor_idr = 200000000
         /\ hasil.bea_keluar_idr = 10000000

C9_Witness ==
  /\ FlatPercentPath /\ ScenarioA
  /\ hasil.bea_keluar_idr = 10000000

\* The percents of the tier rules of the chunks whose threshold the price exceeds.
ExceededTierPercents(chunks, usd_per_ton) ==
  LET tiers == AllTiers(chunks, 1)
  IN  {tiers[i][2] : i \in {j \in 1..Len(tiers) : usd_per_ton > tiers[j][1]}}

\* Some chunk states a percent outside a tier rule.
HasFlatPercent(chunks) ==
  \E n \in 1..Len(chunks) :
    \E i \in 1..Len(chunks[n]) :
      /\ chunks[n][i].k = "pct"
      /\ i > 1 => chunks[n][i - 1].k # "usd_ton"

\* C10: when the chunks hold a tier rule whose threshold the unit price (USD
\* per ton) exceeds and also a flat percent, the duty is the tier percent of
\* the total IDR value, whatever the order of the chunks.
C10_TierBeatsFlat ==
  (/\ DutyDone
   /\ UnitPriceUsdPerTon # None
   /\ HasFlatPercent(calc.duty_chunks)
   /\ ExceededTierPercents(calc.duty_chunks, UnitPriceUsdPerTon) # {}) =>
     /\ hasil.can_compute
     /\ \E pct \in ExceededTierPercents(calc.duty_chunks, UnitPriceUsdPerTon) :
          hasil.bea_keluar_idr * 100 = pct * hasil.total_harga_ekspor_idr

\* "tarif 3%" before the tier rule "> USD 2000/ton: 5%", at USD 2500/ton.
C10_Witness ==
  /\ DutyDone
  /\ calc.duty_chunks = << <<UsdTon(2500), Tarif, Pct(3)>>, <<BK, Gt, UsdTon(2000), Pct(5)>> >>
  /\ calc.rag_tarif_persen = 3
  /\ UnitPriceUsdPerTon = 2500
  /\ hasil.bea_keluar_idr * 100 = 5 * hasil.total_harga_ekspor_idr

\* The unit prices the tier extraction is asked about (USD per ton).
TierPrices == {None, 0, 1999, 2000, 2001, 2500}

TierBasis == "tier percent from RAG"

\* C11: _extract_tier_tariff_from_chunks returns a percent only for a unit
\* price (USD per ton) that is given and strictly exceeds the threshold of a
\* tier rule stating that percent; without a price, or with a price at or
\* below every threshold, it returns nothing although the rules are in the
\* text.  A result tagged as tier percent has the price above a threshold.
C11_TierOnlyAbovePrice ==
  /\ calc.pc \in {"llm1", "llm2", "done"} =>
       \A p \in TierPrices :
         LET tiers == AllTiers(calc.duty_chunks, 1)
             r == _extract_tier_tariff_from_chunks(calc.duty_chunks, p)
         IN  /\ r # None =>
                  /\ p # None
                  /\ \E i \in 1..Len(tiers) : tiers[i][1] < p /\ tiers[i][2] = r
             /\ (p = None \/ \A i \in 1..Len(tiers) : p <= tiers[i][1]) => r = None
  /\ (DutyDone /\ "calc_basis" \in DOMAIN hasil /\ hasil.calc_basis = TierBasis) =>
       /\ UnitPriceUsdPerTon # None
       /\ ExceededTierPercents(calc.duty_chunks, UnitPriceUsdPerTon) # {}

\* "tarif 3%", then "> USD 2000/ton: 5%": the unit price is USD 2000/ton,
\* equal to the threshold, and the duty is 3% of the value.
C11_Witness ==
  /\ DutyDone
  /\ calc.duty_chunks = << <<Tarif, Pct(3)>>, <<BK, Gt, UsdTon(2000), Pct(5)>> >>
  /\ UnitPriceUsdPerTon = 2000
  /\ AllTiers(calc.duty_chunks, 1) = << <<2000, 5>> >>
  /\ hasil.can_compute
  /\ hasil.bea_keluar_idr * 100 = 3 * hasil.total_harga_ekspor_idr
  /\ hasil.bea_keluar_idr > 0

\* The call returned by the specific-levy path.
LevyPath ==
  /\ DutyDone
  /\ "calc_basis" \in DOMAIN hasil
  /\ hasil.calc_basis \in {"computed via specific levy (USD/kg) from RAG",
                           "computed via specific levy (IDR/kg) from RAG"}

\* The first chunk that states a levy of some kind after a levy anchor.
StatesLevy(text) ==
  \E k \in {"usd_kg", "usd_ton", "rp_kg", "rp_ton"} : LevySearch(text, 1, k) # None

LevyChunk(chunks) ==
  chunks[CHOOSE n \in 1..Len(chunks) :
           /\ StatesLevy(chunks[n])
           /\ \A m \in 1..(n - 1) : ~StatesLevy(chunks[m])]

\* C12: on the specific-levy path the duty in IDR is the levy per kg times
\* the net weight, times the USD/IDR rate exactly when the levy is stated in
\* USD; a levy per ton is a thousandth of it per kg; the unit price, the
\* catalog price and the total value do not enter.  (The weights are whole
\* tons, so the levy per ton times the tons is the same amount.)
C12_LevyDuty ==
  LevyPath =>
    LET t  == LevyChunk(calc.duty_chunks)
        w  == calc.berat_bersih
        r  == calc.currency_rate
        d  == hasil.bea_keluar_idr
    IN  /\ hasil.can_compute
        /\ IF LevySearch(t, 1, "usd_kg") # None
           THEN d = LevySearch(t, 1, "usd_kg") * w * r
           ELSE IF LevySearch(t, 1, "usd_ton") # None
           THEN d = LevySearch(t, 1, "usd_ton") * (w \div 1000) * r
           ELSE IF LevySearch(t, 1, "rp_kg") # None
           THEN d = LevySearch(t, 1, "rp_kg") * w
           ELSE d = LevySearch(t, 1, "rp_ton") * (w \div 1000)

\* "bea keluar Rp 500000/ton" for 1000 kg: Rp 500000, whatever the rate and
\* although the catalog has a price.
C12_Witness ==
  /\ LevyPath
  /\ calc.duty_chunks = << <<BK, RpTon(500000)>> >>
  /\ calc.berat_bersih = 1000
  /\ calc.currency_rate = 10000
  /\ hasil.harga_komoditi = 25000
  /\ hasil.bea_keluar_idr = 500000

\* Some chunk states a specific levy.
ChunksStateLevy(chunks) == \E n \in 1..Len(chunks) : StatesLevy(chunks[n])

\* C19: when neither the chunks nor the catalog give a unit price, the call
\* reports can_compute = false with harga_ekspor_per_kg among the missing
\* fields, unless the chunks state a specific levy: then the levy extraction
\* is attempted and the duty is computed from the levy, whatever else was
\* extracted from the chunks.
C19_LevyDespiteNoPrice ==
  (DutyDone /\ UnitPriceUsdPerTon = None) =>
    IF ChunksStateLevy(calc.duty_chunks)
    THEN /\ LevyPath
         /\ hasil.can_compute
    ELSE /\ ~hasil.can_compute
         /\ \E i \in 1..Len(hasil.missing_fields) :
              hasil.missing_fields[i] = "harga_ekspor_per_kg"

\* The three pattern-based extractions on the chunks of the calculation:
\* the tier rule at the unit price, the flat percent, the specific levy.
PatternTier ==
  _extract_tier_tariff_from_chunks(calc.duty_chunks, UnitPriceUsdPerTon)
PatternPercent == _extract_tariff_and_price_from_chunks(calc.duty_chunks)[1]
PatternLevy == _extract_specific_levy_from_chunks(calc.duty_chunks)

\* C20: the delegated extraction is invoked only when the chunk list is not
\* empty and the tier rule, the flat percent and the specific levy were all
\* not found by the patterns, at most once in a calculation, and what is
\* taken from it is a number.
C20_DelegatedLast ==
  /\ llm_calls <= 1
  /\ (llm_calls > 0 \/ calc.pc \in {"llm1", "llm2"}) =>
       /\ calc.duty_chunks # <<>>
       /\ PatternTier = None
       /\ PatternPercent = None
       /\ PatternLevy = <<None, None>>
  /\ (DutyDone /\ llm_calls > 0 /\ calc.rag_tarif_persen # PatternPercent) =>
       calc.rag_tarif_persen \in LlmReply \ {None}

\* The percentages a chunk list states within reach of an anchor term.
AnchoredPercents(chunks) ==
  UNION {{AnchoredAt(chunks[n], i + 1) :
            i \in {j \in 1..Len(chunks[n]) : PercentAnchor(chunks[n][j])}} :
         n \in 1..Len(chunks)} \ {None}

\* C21: if any chunk of the retrieved list states a percentage within reach
\* of an anchor term, the flat percent that
\* _extract_tariff_and_price_from_chunks extracts is such an anchored
\* percentage, never a bare percentage of another place, an earlier chunk
\* included.
C21_AnchoredPreferred ==
  (calc.pc \in {"llm1", "llm2", "done"} /\ AnchoredPercents(calc.duty_chunks) # {}) =>
    PatternPercent \in AnchoredPercents(calc.duty_chunks)

\* The stored records of the USD to IDR pair.
UsdIdrRecords ==
  {r \in currency_rates : r.base_currency = "USD" /\ r.target_currency = "IDR"}

\* C24: the exchange rate the calculation uses is the rate of the stored
\* USD to IDR record with the most recent rate_date, the most recently
\* created one among those of that date; no record of another pair and no
\* older record is used.
C24_LatestUsdIdrRate ==
  (calc.pc \in {"chunks", "llm1", "llm2", "done"} /\ UsdIdrRecords # {}) =>
    \E r \in UsdIdrRecords :
      /\ calc.currency_rate = r.rate
      /\ \A s \in UsdIdrRecords \ {r} :
           \/ r.rate_date > s.rate_date
           \/ r.rate_date = s.rate_date /\ r.created_at > s.created_at
      /\ DutyDone => hasil.kurs_usd_idr = r.rate

\* C25: the key of the duty-chunk cache covers all inputs of the search, so
\* in any sequence of calculations on one service instance, different
\* destinations for one product included, the chunks a calculation works
\* on are the chunks a fresh search for its own product and destination
\* gives (or none, when that search fails).
C25_CacheTransparent ==
  calc.pc \in {"llm1", "llm2", "done"} =>
    calc.duty_chunks \in {similarity_search(calc.negara_tujuan), <<>>}

\* The prices the chunks state, per kg in thousandths of a USD: the USD
\* amounts per kg or per ton that are not the threshold of a tier rule.
StatedPrices(chunks) ==
  UNION {{IF chunks[n][i].k = "usd_kg" THEN chunks[n][i].v * 1000 ELSE chunks[n][i].v :
            i \in {j \in 1..Len(chunks[n]) :
                     /\ chunks[n][j].k \in {"usd_kg", "usd_ton"}
                     /\ ~(j > 1 /\ chunks[n][j - 1].k = "gt")}} :
         n \in 1..Len(chunks)}

\* C26: a USD-per-ton amount that is the threshold of a tier rule is never
\* taken as the unit price: a unit price extracted from the chunks is a
\* price the chunks state (otherwise the price comes from the catalog).
C26_ThresholdNotPrice ==
  (calc.pc \in {"llm1", "llm2", "done"} /\ calc.rag_price_per_kg # None) =>
    calc.rag_price_per_kg \in StatedPrices(calc.duty_chunks)

\* C27: in a result computed on a percentage path (can_compute and a
\* reported percent), the reported percent is the percent applied:
\* bea_keluar_idr = tarif_bea_keluar_persen / 100 * total_harga_ekspor_idr,
\* also when a tier rule overrides a flat percent.
C27_ReportedPercentApplied ==
  (/\ DutyDone
   /\ "can_compute" \in DOMAIN hasil
   /\ hasil.can_compute
   /\ hasil.tarif_bea_keluar_persen # None) =>
     hasil.bea_keluar_idr * 100 = hasil.tarif_bea_keluar_persen * hasil.total_harga_ekspor_idr

\* C28: when the chunks hold several tier rules whose thresholds the unit
\* price strictly exceeds, _extract_tier_tariff_from_chunks returns the
\* percent of the tier with the highest exceeded threshold, whatever the
\* order of the tiers in the text or in the chunk list.
C28_HighestExceededTier ==
  calc.pc \in {"llm1", "llm2", "done"} =>
    \A p \in TierPrices \ {None} :
      LET tiers == AllTiers(calc.duty_chunks, 1)
          exceeded == {i \in 1..Len(tiers) : p > tiers[i][1]}
      IN  exceeded # {} =>
            \E i \in exceeded :
              /\ \A j \in exceeded : tiers[j][1] <= tiers[i][1]
              /\ _extract_tier_tariff_from_chunks(calc.duty_chunks, p) = tiers[i][2]

(***************************************************************************)
(* Properties of the prompt selection.                                     *)
(***************************************************************************)
StageIndex(name) == CHOOSE i \in 1..Len(StageOrder) : StageOrder[i] = name

\* Stage b directly follows stage a in the chain; the keyword stage is left
\* out for a query without text.
FollowsInChain(a, b, query_text) ==
  \/ StageIndex(b) = StageIndex(a) + 1
  \/ a = "emb_only" /\ b = "first_active" /\ query_text = ""

\* C2: _get_prompt_optimized tries the stages in the fixed order blended,
\* embedding-only (with threshold 0.7), keyword-only, first active prompt,
\* in-memory default, starting with the blended search; a stage is invoked
\* only if every stage invoked before it returned nothing; and a finished
\* call has returned a prompt, which is the one the last stage gave.
C2_FallbackChain ==
  LET st == sel.stages
  IN  /\ st # <<>> => st[1].stage = "blended"
      /\ \A i \in 1..Len(st) : \A j \in 1..Len(st) :
           i < j => /\ StageIndex(st[i].stage) < StageIndex(st[j].stage)
                    /\ ~st[i].returned
      /\ \A i \in 2..Len(st) : FollowsInChain(st[i - 1].stage, st[i].stage, sel.query.text)
      /\ \A i \in 1..Len(st) : st[i].stage = "emb_only" => st[i].threshold = 70
      /\ sel.pc = "done" =>
           /\ sel.result.id # None
           /\ st # <<>> => st[Len(st)].returned
           /\ prompt_cache[sel.query] = sel.result

\* The call went down the whole chain to the in-memory default, for a query
\* without embedding, although the store holds a prompt: the store failed.
C2_Witness ==
  /\ sel.pc = "done"
  /\ sel.query = [emb |-> "empty", text |-> "T1"]
  /\ prompt_library # <<>>
  /\ Len(sel.stages) = 5
  /\ sel.stages[5].stage = "default"
  /\ sel.result.id = 0

\* The entries of the stage log of the current call for stage `name`.
StageRuns(name) == {i \in 1..Len(sel.stages) : sel.stages[i].stage = name}

\* The blended scores of the active corpus for the query of the current call.
BlendedScores ==
  {BlendedScore(prompt_library[i], sel.query) : i \in 1..Len(prompt_library)}

\* C13: get_best_prompt_blended returns an item and a score if and only if
\* the active corpus is not empty and its greatest blended score is at least
\* 0.55; the item returned has that greatest score, the score returned is
\* that score and lies between 0.55 and 1; in every other case nothing is
\* returned.
C13_BlendedContract ==
  \A i \in StageRuns("blended") :
    LET st == sel.stages[i]
        best == IF BlendedScores = {} THEN None
                ELSE CHOOSE m \in BlendedScores : \A x \in BlendedScores : x <= m
    IN  /\ st.returned <=>
             (st.searched /\ prompt_library # <<>> /\ best * 100 >= 55 * ScoreScale)
        /\ ~st.searched => ~st.returned
        /\ (st.returned /\ sel.pc = "done") =>
             /\ sel.result.id \in 1..Len(prompt_library)
             /\ BlendedScore(prompt_library[sel.result.id], sel.query) = best
             /\ sel.result.similarity = best
             /\ sel.result.similarity * 100 >= 55 * ScoreScale
             /\ sel.result.similarity <= ScoreScale

\* Two active prompts, the second with the greater blended score
\* (0.8 * 0.9 + 0.2 * 1/3): it is returned with that score.
C13_Witness ==
  /\ sel.pc = "done"
  /\ Len(sel.stages) = 1
  /\ sel.stages[1].stage = "blended" /\ sel.stages[1].returned
  /\ prompt_library = <<Prompt("list", 60, 3), Prompt("list", 90, 1)>>
  /\ sel.query = [emb |-> "E1", text |-> "T1"]
  /\ sel.result = Match(2, 12 * 90 + 100)

\* C14: when the active corpus holds an item without embedding of which at
\* least 3 keywords occur in the query text, the keyword-only search returns
\* such an item with a score of at least 0.85.
C14_KeywordOnlyScore ==
  \A i \in StageRuns("keywords") :
    LET st == sel.stages[i]
        strong == {j \in 1..Len(prompt_library) :
                     prompt_library[j].emb = "none" /\ prompt_library[j].matches >= 3}
    IN  (st.searched /\ sel.query.text # "" /\ strong # {}) =>
          /\ st.returned
          /\ sel.pc = "done" =>
               /\ sel.result.id \in strong
               /\ sel.result.similarity * 100 >= 85 * ScoreScale

\* The active prompts with a usable embedding whose score in stage `name`
\* reaches the floor of that stage.
ValidAboveFloor(name) ==
  {j \in 1..Len(prompt_library) :
     /\ prompt_library[j].emb = "list"
     /\ IF name = "blended"
        THEN BlendedScore(prompt_library[j], sel.query) >= BlendedFloor
        ELSE prompt_library[j].cos >= EmbOnlyThreshold}

\* C15: in the blended and in the embedding-only search an item whose stored
\* embedding is malformed or of another dimension than the query's is
\* skipped, and does not keep the search from returning when another item
\* has a valid embedding that reaches the floor.
C15_MalformedSkipped ==
  \A i \in StageRuns("blended") \cup StageRuns("emb_only") :
    LET st == sel.stages[i]
    IN  (/\ st.searched
         /\ \E j \in 1..Len(prompt_library) : prompt_library[j].emb \in {"malformed", "dim"}
         /\ ValidAboveFloor(st.stage) # {})
        => st.returned

\* The signals an item has for a query: a usable embedding on both sides,
\* and keywords of the item that occur in the query text.
EmbeddingSignal(p, q) == q.emb # "empty" /\ p.emb = "list"
KeywordSignal(p, q) == q.text # "" /\ p.matches > 0

\* The scores the stated blend allows for an item, in units of 1/ScoreScale:
\* 0.8 * cos + 0.2 * keyword_score with both signals, cos with the embedding
\* signal only, keyword_score * 0.95 with the keyword signal only; cos is
\* clamped at 0 and keyword_score is min(1, matches / 3).  An item without
\* a match in a query with text may have keywords or not: both readings of
\* "only the embedding signal exists" are allowed for it.
StatedScores(p, q) ==
  LET cos == Max(0, p.cos)
      keyword_thirds == Min(3, p.matches)
  IN  IF EmbeddingSignal(p, q) /\ KeywordSignal(p, q)
      THEN {12 * cos + 100 * keyword_thirds}
      ELSE IF EmbeddingSignal(p, q)
      THEN {15 * cos} \cup (IF q.text # "" THEN {12 * cos} ELSE {})
      ELSE IF KeywordSignal(p, q)
      THEN {475 * keyword_thirds}
      ELSE {0}

\* C22: the score of an item is 0.8 * cos + 0.2 * keyword_score when it has
\* an embedding and keywords, cos when only the embedding signal exists and
\* keyword_score * 0.95 when only the keyword signal exists, in the blended
\* search and in the keyword-only search, and a search that returns gives
\* the score of the item it returns.
C22_BlendFormula ==
  /\ \A i \in StageRuns("blended") :
       sel.stages[i].searched =>
         /\ \A j \in 1..Len(prompt_library) :
              BlendedScore(prompt_library[j], sel.query)
                \in StatedScores(prompt_library[j], sel.query)
         /\ (sel.stages[i].returned /\ sel.pc = "done") =>
              sel.result.similarity \in StatedScores(prompt_library[sel.result.id], sel.query)
  /\ \A i \in StageRuns("keywords") :
       sel.stages[i].searched =>
         \A j \in 1..Len(prompt_library) :
           ~EmbeddingSignal(prompt_library[j], sel.query) =>
             KeywordOnlyScore(prompt_library[j], sel.query)
               \in StatedScores(prompt_library[j], sel.query)

\* C30: on one PromptLibraryService, after any sequence of create, update,
\* delete and log_prompt_usage calls, get_active_prompts returns exactly
\* the prompts that are stored and active at that moment, and get_by_id
\* never returns a deleted prompt.
C30_LibraryViewsCurrent ==
  /\ lib_call.op = "get_active_prompts" =>
       Range(lib_call.result) =
         {prompt_library[i].id : i \in {j \in 1..Len(prompt_library) : prompt_library[j].is_active}}
  /\ lib_call.op = "get_by_id" =>
       \A i \in 1..Len(lib_call.result) : Stored(lib_call.result[i])

(***************************************************************************)
(* Properties of process_chatbot_query.                                    *)
(***************************************************************************)
Returned == turn.pc = "done"

IsErrorResult(r) ==
  /\ "success" \in DOMAIN r
  /\ ~r.success
  /\ "promptId" \notin DOMAIN r

IsMissingDataPrompt(r) ==
  \/ "extractedData" \in DOMAIN r /\ "calculationDetails" \notin DOMAIN r
  \/ "generateProposal" \in DOMAIN r /\ ~r.generateProposal

IsComputedResult(r) ==
  \/ "calculationDetails" \in DOMAIN r
  \/ "generateProposal" \in DOMAIN r /\ r.generateProposal

IsDelegatedResult(r) ==
  /\ "promptId" \in DOMAIN r
  /\ "extractedData" \notin DOMAIN r
  /\ "generateProposal" \notin DOMAIN r

Outcomes(r) ==
  (IF IsErrorResult(r) THEN {"error"} ELSE {})
  \cup (IF IsMissingDataPrompt(r) THEN {"missing_data"} ELSE {})
  \cup (IF IsComputedResult(r) THEN {"computed"} ELSE {})
  \cup (IF IsDelegatedResult(r) THEN {"delegated"} ELSE {})

\* C1: nothing is returned before the call ends, and the call ends with a
\* result that is exactly one of error result, missing-data prompt,
\* computed/ready result and delegated-intent result; an exception of a
\* collaborator never reaches the caller.
C1_OneTerminalOutcome ==
  /\ ~Returned => response = NoResponse
  /\ Returned =>
       /\ response # NoResponse
       /\ "escaped" \notin DOMAIN response
       /\ Cardinality(Outcomes(response)) = 1

\* The duty calculator raised, and the call ended with the error result.
C1_Witness ==
  /\ Returned
  /\ calc.pc = "raised"
  /\ duty_requests # <<>>
  /\ response = HandlerError

\* The export_duty handler has taken its decision.
DutyDecided == turn.cot_intent = "export_duty" /\ turn.pc \in {"duty_calc", "done"}

LastAnalysis == generated[Len(generated)]

\* The names _generate_missing_data_response gives the fields that a test decides absent.
AbsentFields(d, zero_is_absent) ==
  (IF d.nama_produk = "" THEN <<"nama_produk">> ELSE <<>>)
  \o (IF d.berat_bersih_kg = None \/ (zero_is_absent /\ d.berat_bersih_kg = 0)
      THEN <<"berat_bersih (kg)">> ELSE <<>>)
  \o (IF d.negara_tujuan = "" THEN <<"negara_tujuan">> ELSE <<>>)

DutyDecision(zero_is_absent) ==
  DutyDecided =>
    LET absent == AbsentFields(turn.extracted_data, zero_is_absent)
    IN  IF absent = <<>>
        THEN /\ Len(duty_requests) = 1
             /\ duty_requests[1] = turn.extracted_data
        ELSE /\ duty_requests = <<>>
             /\ n_calls = 0
             /\ Returned
             /\ IsMissingDataPrompt(response)
             /\ response.extractedData = turn.extracted_data
             /\ LastAnalysis = Analysis("export_duty", absent)

\* C3 as stated: in the export_duty flow the calculation is invoked if and
\* only if product, net weight and destination are all present (not None)
\* in the merged facts; otherwise the turn ends with a missing-data prompt
\* that lists exactly the absent fields, and no calculation is attempted.
C3_CalculationIffPresent ==
  DutyDecision(FALSE)

\* C3, amended: the same, with a net weight of 0 counted as absent.
C3_CalculationIffComplete ==
  DutyDecision(TRUE)

\* Product and weight are known, the destination is not: the prompt asks
\* for negara_tujuan only and nothing was calculated.
C3_Witness ==
  /\ DutyDecided
  /\ Returned
  /\ turn.extracted_data.nama_produk = "Kakao"
  /\ turn.extracted_data.berat_bersih_kg = 1000
  /\ LastAnalysis = Analysis("export_duty", <<"negara_tujuan">>)
  /\ duty_requests = <<>>

\* The export_proposal handler has returned.
ProposalReturned == turn.quick_intent = "export_proposal" /\ Returned

MergedProposal ==
  IF "proposalData" \in DOMAIN response THEN response.proposalData
  ELSE response.proposalVariables

\* C4: in both slot-filling flows a field given in the current message
\* keeps its value in the merged facts, and no field that was non-empty
\* becomes empty.
C4_CurrentMessageWins ==
  /\ DutyDecided =>
       /\ turn.current.nama_produk # "" =>
            turn.extracted_data.nama_produk = turn.current.nama_produk
       /\ turn.current.berat_bersih_kg # None =>
            turn.extracted_data.berat_bersih_kg = turn.current.berat_bersih_kg
       /\ turn.current.negara_tujuan # "" =>
            turn.extracted_data.negara_tujuan = turn.current.negara_tujuan
  /\ ProposalReturned =>
       \A k \in DOMAIN NoProposalData :
         extract_proposal_data(turn.query)[k] # "" =>
           MergedProposal[k] = extract_proposal_data(turn.query)[k]

\* The countries of the extractor's list that the last 10 turns mention.
HistoryDestinations ==
  LET window == LastN(turn.history, HistoryWindow)
  IN  UNION {Mentions(window[i].user_query, "country")
               \cup Mentions(window[i].assistant_response, "country") :
             i \in 1..Len(window)}
        \cap Range(countries)

\* C5: when the current message gives product and net weight but no
\* destination and a turn among the last 10 mentions a destination, the
\* merged facts have that destination and the calculation is invoked.
C5_DestinationFromHistory ==
  (/\ DutyDecided
   /\ turn.current.nama_produk # ""
   /\ TruthyNum(turn.current.berat_bersih_kg)
   /\ turn.current.negara_tujuan = ""
   /\ HistoryDestinations # {})
  => /\ turn.extracted_data.negara_tujuan \in HistoryDestinations
     /\ duty_requests # <<>>

\* The turns of the window that qualify: an embedding was created and its
\* cosine to the query reaches the threshold.
Qualifying(window) ==
  {j \in 1..Len(window) : window[j].sim # None /\ window[j].sim >= similarity_threshold}

\* C16: _select_relevant_history returns at most max_turns snippets, each
\* built from one of the last 10 turns whose cosine to the query is at least
\* the threshold and no turn used twice, in non-increasing order of the
\* cosine; no qualifying turn is left out while a lower-scoring one or fewer
\* than max_turns are returned; a turn without embedding is skipped and the
\* others are still selected; the history supplied is never changed.
C16_RelevantHistory ==
  /\ [](turn.pc # "idle" =>
         LET window == LastN(turn.history, HistoryWindow)
             ctx == turn.selected_context
             n == Len(ctx)
             qualifying == Qualifying(window)
             snippets == <<>> \o [j \in 1..Len(window) |-> Snippet(window[j])]
             \* the qualifying turns that snippet i can come from, and the
             \* cosine of such a turn
             from == <<>> \o [i \in 1..n |->
                               {j \in qualifying : snippets[j] = ctx[i]}]
             sims == <<>> \o [i \in 1..n |->
                               IF from[i] = {} THEN None
                               ELSE window[CHOOSE j \in from[i] : TRUE].sim]
         IN  /\ n <= max_turns
             /\ \A i \in 1..n :
                  /\ from[i] # {}
                  /\ Cardinality({k \in 1..n : ctx[k] = ctx[i]})
                       <= Cardinality(from[i])
             /\ \A i \in 1..n : \A k \in 1..n : i < k => sims[i] >= sims[k]
             /\ n > 0 =>
                  /\ \A j \in qualifying :
                       window[j].sim > sims[n] => \E i \in 1..n : j \in from[i]
                  /\ n = Min(max_turns, Cardinality(qualifying)))
  /\ [][turn.pc # "idle" => turn.history' = turn.history]_vars

\* Ten turns in the window, nine of them qualifying and one without
\* embedding: the latest turn, of cosine 0.8, comes first, then two of the
\* turns of cosine 0.4.
C16_Witness ==
  /\ turn.pc # "idle"
  /\ Len(turn.history) > HistoryWindow
  /\ \E j \in 1..Len(turn.history) : turn.history[j].sim = None
  /\ Cardinality(Qualifying(LastN(turn.history, HistoryWindow))) > max_turns
  /\ Len(turn.selected_context) = max_turns
  /\ turn.selected_context[1] = Snippet(turn.history[Len(turn.history)])
  /\ turn.selected_context[2] = Snippet(PadTurn)
  /\ turn.history[Len(turn.history)].sim = 80

\* The classifier's reply is one of those the claim names: the call failed,
\* or gave no string, no valid JSON, or JSON without intent or confidence.
BadCotReply(reply) ==
  \/ reply.kind \in {"raises", "not_str", "not_json", "json_list"}
  \/ reply.kind = "json" /\ (reply.intent = "" \/ reply.confidence = None)

\* C17: analyze_query_with_cot never raises and always returns an analysis
\* with an intent; when the collaborator call fails, or its output is no
\* string, no valid JSON, or lacks the intent or the confidence field, the
\* analysis is the fallback with intent general_info and confidence 0.5.
C17_AnalysisFallback ==
  turn.cot_reply # NoReply =>
    /\ turn.cot_analysis.escaped = ""
    /\ turn.cot_analysis.intent # ""
    /\ turn.cot_intent = turn.cot_analysis.intent
    /\ BadCotReply(turn.cot_reply) =>
         /\ turn.cot_analysis = FallbackAnalysis
         /\ turn.cot_analysis.intent = "general_info"
         /\ turn.cot_analysis.confidence = 50

\* The reply is a JSON object with intent export_duty and no confidence:
\* the analysis is the fallback and the turn ends with the general answer.
C17_Witness ==
  /\ Returned
  /\ turn.cot_reply = CotReply("json", "export_duty", None)
  /\ turn.cot_analysis = FallbackAnalysis
  /\ IsDelegatedResult(response)
  /\ duty_requests = <<>>

\* The sub-tasks that have an operation in flight on the database session
\* of the request: the two lookups of the duty calculation and the prompt
\* selection (fact extraction, the classifier and the embedding provider do
\* not use the session).
SessionOperations ==
  calc.db_in_flight
    \cup (IF sel.pc \in {"blended", "emb_only", "keywords", "first_active"}
          THEN {"prompt_task"} ELSE {})

\* C18: within one request the sub-tasks that are launched together and
\* joined never have two operations in flight at once on the database
\* session of the request.
C18_NoConcurrentUse ==
  Cardinality(SessionOperations) <= 1

\* The intents a keyword rule of _quick_intent_detection assigns.
KeywordIntents == {"document_list", "document_template", "export_duty", "export_proposal"}

\* The flow the turn is in, or has ended in: the semantic classifier is
\* being awaited ("classifier"), or one of the four handlers runs or has
\* returned.
DispatchedFlow ==
  CASE turn.pc = "analyze" -> "classifier"
    [] turn.pc \in {"document", "document_prompt"} -> "document"
    [] turn.pc = "proposal" -> "export_proposal"
    [] turn.pc \in {"duty_prompt", "duty_calc"} -> "export_duty"
    [] turn.pc = "general_prompt" -> "general_info"
    [] turn.pc = "done" /\ "generateProposal" \in DOMAIN response -> "export_proposal"
    [] turn.pc = "done" /\ "extractedData" \in DOMAIN response -> "export_duty"
    [] turn.pc = "done" /\ "cotUsed" \in DOMAIN response -> "general_info"
    [] turn.pc = "done" /\ IsErrorResult(response) /\ duty_requests # <<>> -> "export_duty"
    [] turn.pc = "done" /\ turn.cot_reply = NoReply -> "document"
    [] OTHER -> "none"

\* C23: whenever _quick_intent_detection assigns document_list,
\* document_template, export_duty or export_proposal, the semantic
\* classifier is not invoked and the turn is dispatched to the flow of that
\* intent, so that the outcome does not depend on the classifier's answer.
C23_KeywordIntentDecides ==
  (turn.pc # "idle" /\ turn.quick_intent \in KeywordIntents) =>
    /\ turn.cot_reply = NoReply
    /\ DispatchedFlow = IF turn.quick_intent \in {"document_list", "document_template"}
                        THEN "document" ELSE turn.quick_intent

\* The turns of the history that _handle_export_proposal scans hold a
\* request for a proposal, and the current message has no keyword of
\* _quick_intent_detection and gives required fields, none of which the
\* history gives already.
ProposalFollowUp ==
  LET window     == LastN(turn.history, HistoryWindow)
      current    == extract_proposal_data(turn.query)
      historical == extract_proposal_data(Join(hist_text_parts(window)))
  IN  /\ \E i \in 1..Len(window) : "proposal" \in Keywords(window[i].user_query)
      /\ Keywords(turn.query) = {}
      /\ \E i \in 1..Len(required_fields) : current[required_fields[i]] # ""
      /\ \A i \in 1..Len(required_fields) :
           current[required_fields[i]] # "" => historical[required_fields[i]] = ""

\* C29: in a multi-turn proposal session a follow-up message that only
\* gives still-missing fields and has no proposal keyword is dispatched to
\* the proposal flow again, and once the five required fields have been
\* given across the turns the turn returns generateProposal = True.
C29_FollowUpReachesProposal ==
  (Returned /\ ProposalFollowUp) =>
    /\ "generateProposal" \in DOMAIN response
    /\ missing_of(ProposalData(turn.query, turn.history)) = <<>> =>
         response.generateProposal

\* The five required fields, in the order of the claim.
C6_Required ==
  <<"exporter_name", "consignee_name", "destination_country", "contact_email",
    "contact_phone">>

\* C6: _handle_export_proposal returns generateProposal = True, with the
\* template and the variable map, if and only if each of the five required
\* fields is non-empty in the current message's extraction or in the
\* history's; otherwise it returns generateProposal = False, no template,
\* and as missingFields exactly the fields empty in both, in the fixed order.
C6_ProposalReadiness ==
  ProposalReturned =>
    LET current    == extract_proposal_data(turn.query)
        historical == IF turn.history = <<>> THEN NoProposalData
                      ELSE extract_proposal_data(
                             Join(hist_text_parts(LastN(turn.history, HistoryWindow))))
        empty      == SelectSeq(C6_Required, LAMBDA f : current[f] = "" /\ historical[f] = "")
    IN  /\ response.generateProposal = (empty = <<>>)
        /\ IF empty = <<>>
           THEN /\ response.htmlTemplate = "EXPORT_PROPOSAL_HTML_TEMPLATE"
                /\ "proposalVariables" \in DOMAIN response
                /\ "missingFields" \notin DOMAIN response
           ELSE /\ "htmlTemplate" \notin DOMAIN response
                /\ response.missingFields = empty

\* The message gives four of the fields and the history the phone number:
\* the proposal is ready.
C6_Witness ==
  /\ ProposalReturned
  /\ extract_proposal_data(turn.query).contact_phone = ""
  /\ extract_proposal_data(turn.query).contact_email # ""
  /\ response.generateProposal

====
